---- MODULE Spec2Model ----
(***************************************************************************)
(* A model of the news-chatbot backend: the Session Directory              *)
(* (sessionService.js), the answer cache (cacheService.js), the Answer     *)
(* Orchestrator (ragService.js) and the chat handlers (socketService.js,   *)
(* routes/chat.js).                                                        *)
(*                                                                         *)
(* Node runs one handler at a time up to its next await, so every action   *)
(* below is one such run: the awaited call's effect on its service         *)
(* followed by the handler's code up to the next await.  Redis executes    *)
(* commands in the order they are issued on the shared connection, so the  *)
(* awaited command and its continuation form one step.                     *)
(***************************************************************************)
EXTENDS Integers, Sequences, FiniteSets, TLC

VARIABLES
  now,           \* seconds elapsed on the Redis server's clock
  redisSession,  \* Redis keys "session:<id>": id -> [value, expireAt]
  call,          \* SessionService calls in flight, per caller
  acked,         \* per session id: messageIds whose addMessage has returned
  last,          \* the SessionService call that returned in the step just taken
  msgSeq,        \* number of messageIds generated so far (uuidv4 stand-in)
  appendAge,     \* per session id: seconds since the session was created or last
                 \* appended to, counted up to the session window
  writeAge,      \* per session id: seconds since createSession, addMessage or
                 \* updateSessionActivity last stored it, counted up to the window
  redisRag,      \* Redis keys "rag:<md5>": key -> [value, expireAt]
  cacheLast,     \* the CacheService call that returned in the step just taken
  cachedQueries, \* the query strings cacheRAGResponse has stored so far
  isInitialized, \* RAGService.isInitialized
  hasPoints,     \* the Qdrant collection holds points (points_count > 0)
  ragCall,       \* the RAGService.query call in flight
  ragLast,       \* the RAGService.query call that ended in the step just taken
  chat,          \* per chat request: its handler's position and locals
  chatLast,      \* the chat handler that ended in the step just taken
  roomLog,       \* per room: the events emitted to it with io.to(room).emit, in order
  activeConnections, \* SocketService.activeConnections: socket id -> {sessionId}
  retr,          \* the RAGService.retrieveContext call: its position and locals
  emb,           \* the EmbeddingService.generateEmbeddings call: its position, the
                 \* requests it has made and the delays it has waited
  lim,           \* ErrorHandler.rateLimitStore, the clock it reads, the requests it
                 \* has passed on and its last answer
  coll,          \* the Qdrant collection and the VectorService.recreateCollection call
  join,          \* the join-session handlers: per connection its position, the events
                 \* emitted to it with socket.emit, and how its joins ended
  srch,          \* the VectorService.searchSimilar call: its position, its arguments
                 \* and the search requests it has sent
  kb,            \* the collection's records, each marked with the build that stored
                 \* it, and the knowledge-base build in flight
  conn,          \* VectorService.client and isConnected, and the callers of connect
                 \* and ensureConnection in flight
  storing,       \* the VectorService.storeEmbeddings call in flight: its arguments,
                 \* the points it made, the batches sent and acknowledged
  rt             \* the connections of the real-time channel: the rooms each is in,
                 \* its handler in flight and the events it has received

sessVars == <<redisSession, call, acked, last, msgSeq, appendAge, writeAge>>
cacheVars == <<redisRag, cacheLast, cachedQueries>>

ragVars == <<isInitialized, hasPoints, ragCall, ragLast>>

chatVars == <<chat, chatLast, roomLog, activeConnections>>

\* The calls of the services modelled on their own
compVars == <<retr, emb, lim, coll, join>>

\* The calls of the VectorService modelled on their own
vecVars == <<srch, kb, conn, storing, rt>>

vars == <<now, sessVars, cacheVars, ragVars, chatVars, compVars, vecVars>>

\* What the Session Directory's own operations leave alone
NotSession == <<cacheVars, ragVars, chatVars, compVars, vecVars>>

\* a is b with elements left out
RECURSIVE IsSubSeq(_, _)
IsSubSeq(a, b) ==
  IF a = <<>> THEN TRUE
  ELSE IF b = <<>> THEN FALSE
  ELSE IF Head(a) = Head(b) THEN IsSubSeq(Tail(a), Tail(b))
  ELSE IsSubSeq(a, Tail(b))

(***************************************************************************)
(* Bounds of the model.                                                    *)
(***************************************************************************)
MaxTicks == 3
MaxMsgs == 2

(***************************************************************************)
(* Program constants.                                                      *)
(***************************************************************************)
SESSION_TTL == 1800

\* The clock advances in halves of the session window.
TickSeconds == SESSION_TTL \div 2

(***************************************************************************)
(* Values.  The empty string stands for every falsy sessionId a caller can *)
(* pass ("", undefined, null, 0).                                          *)
(***************************************************************************)
ClientIds == {"s1", ""}
GeneratedIds == {"u1"}
SessionIds == ClientIds \cup GeneratedIds
Callers == {"p1", "p2"}
Contents == {"hi"}

Falsy(id) == id = ""

Null == [null |-> TRUE]

(***************************************************************************)
(* JSON.stringify / JSON.parse.  Every stored value is built from strings, *)
(* finite numbers, booleans, arrays and plain objects with no undefined    *)
(* property, which JSON carries without loss; the text is kept as a tagged *)
(* value.                                                                  *)
(***************************************************************************)
JSONStringify(v) == <<"json", v>>
JSONParse(text) == text[2]

(***************************************************************************)
(* Redis: SETEX, GET, DEL on one keyspace prefix.  A key whose expireAt    *)
(* has been reached is gone.                                               *)
(***************************************************************************)
RedisLive(store, key, t) == key \in DOMAIN store /\ store[key].expireAt > t

RedisGet(store, key, t) ==
  IF RedisLive(store, key, t) THEN store[key].value ELSE Null

RedisSetex(store, key, ttl, value, t) ==
  [k \in DOMAIN store \cup {key} |->
     IF k = key THEN [value |-> value, expireAt |-> t + ttl] ELSE store[k]]

RedisDel(store, key) == [k \in DOMAIN store \ {key} |-> store[k]]

RedisPurge(store, t) == [k \in {x \in DOMAIN store : store[x].expireAt > t} |-> store[k]]

\* TTL key: the seconds left, 0 for no key
RedisTTL(store, key, t) == IF RedisLive(store, key, t) THEN store[key].expireAt - t ELSE 0

(***************************************************************************)
(* SessionService (sessionService.js).                                     *)
(***************************************************************************)
\* createSession's sessionData literal.  The ISO timestamps (createdAt, lastActivity,
\* a message's timestamp) are left out: they are stored and handed back, and no branch depends on them.
SessionData(id) == [sessionId |-> id, messageCount |-> 0, messages |-> <<>>]

\* createSession: const id = sessionId || this.generateSessionId()
CreateId(sessionId, generated) == IF Falsy(sessionId) THEN generated ELSE sessionId

\* generateSessionId: a uuid no stored session uses
FreshIds(store) == GeneratedIds \ DOMAIN store

\* createSession's write: redis.setex(`session:${id}`, this.TTL, JSON.stringify(sessionData))
CreateSessionStore(store, id, t) ==
  RedisSetex(store, id, SESSION_TTL, JSONStringify(SessionData(id)), t)

\* getSession: the parsed value, or null
GetSession(store, sessionId, t) ==
  LET sessionData == RedisGet(store, sessionId, t)
  IN IF sessionData = Null THEN Null ELSE JSONParse(sessionData)

\* addMessage: { ...message, timestamp, messageId: uuidv4() }
MessageWithId(message, id) == [messageId |-> id] @@ message

\* A push that leaves messageCount as it was
PushMessageOnly(session, message, id) ==
  [session EXCEPT !.messages = Append(session.messages, MessageWithId(message, id))]

\* addMessage: push, then messageCount and lastActivity
PushMessage(session, message, id) ==
  LET messages == Append(session.messages, MessageWithId(message, id))
  IN [session EXCEPT !.messages = messages, !.messageCount = Len(messages)]

\* A write that kept the key's remaining time-to-live (SET ... KEEPTTL)
StoreSessionKeepTTL(store, sessionId, session, t) ==
  [k \in DOMAIN store \cup {sessionId} |->
     IF k = sessionId
     THEN [value |-> JSONStringify(session),
           expireAt |-> IF RedisLive(store, k, t) THEN store[k].expireAt ELSE t + SESSION_TTL]
     ELSE store[k]]

\* addMessage's write: redis.setex(`session:${sessionId}`, this.TTL, JSON.stringify(session))
StoreSession(store, sessionId, session, t) ==
  RedisSetex(store, sessionId, SESSION_TTL, JSONStringify(session), t)

\* getSessionHistory's two results
SessionHistory(session, sessionId) ==
  IF session = Null
  THEN [sessionId |-> sessionId, messages |-> <<>>, messageCount |-> 0, exists |-> FALSE]
  ELSE [sessionId |-> session.sessionId, messages |-> session.messages,
        messageCount |-> session.messageCount, exists |-> TRUE]

(***************************************************************************)
(* The Session Directory under concurrent callers                          *)
(***************************************************************************)
Idle == [pc |-> "idle", sid |-> "", session |-> Null, found |-> FALSE]

\* The call that returned in the step just taken: the remaining time-to-live of
\* session sid before its last step, and whether getSession found it.  What the
\* call returned and the time-to-live it left are read from the state it left.
NoCall == [op |-> "none", sid |-> "", ttlBefore |-> 0, existed |-> FALSE, mid |-> 0]

Completed(op, sid, existed, mid) ==
  [op |-> op, sid |-> sid, ttlBefore |-> RedisTTL(redisSession, sid, now),
   existed |-> existed, mid |-> mid]

\* Callers are interchangeable: the second starts a call only while the first is
\* in one
Free(p) == call[p].pc = "idle" /\ (p = "p1" \/ call["p1"].pc # "idle")

UserMessage(content) == [role |-> "user", content |-> content, type |-> "text"]

SessInit ==
  /\ redisSession = <<>>
  /\ call = [p \in Callers |-> Idle]
  /\ acked = [id \in SessionIds |-> <<>>]
  /\ last = NoCall
  /\ msgSeq = 0
  /\ appendAge = [id \in SessionIds |-> SESSION_TTL]
  /\ writeAge = [id \in SessionIds |-> SESSION_TTL]

\* createSession(sessionId), as POST /api/session/create calls it: one await
SessCreate(sessionId) ==
  /\ \E generated \in (IF Falsy(sessionId) THEN FreshIds(redisSession) ELSE {sessionId}) :
       LET id == CreateId(sessionId, generated)
       IN /\ redisSession' = CreateSessionStore(redisSession, id, now)
          /\ acked' = [acked EXCEPT ![id] = <<>>]
          /\ last' = Completed("createSession", id, RedisLive(redisSession, id, now), 0)
          /\ appendAge' = [appendAge EXCEPT ![id] = 0]
          /\ writeAge' = [writeAge EXCEPT ![id] = 0]
  /\ UNCHANGED <<now, call, msgSeq, NotSession>>

\* A getSession that extended the session's life the way updateSessionActivity does
SessGetTouching(sessionId) ==
  /\ last' = Completed("getSession", sessionId, RedisLive(redisSession, sessionId, now), 0)
  /\ redisSession' =
       IF RedisLive(redisSession, sessionId, now)
       THEN StoreSession(redisSession, sessionId, GetSession(redisSession, sessionId, now), now)
       ELSE redisSession
  /\ UNCHANGED <<now, call, acked, msgSeq, appendAge, writeAge, NotSession>>

\* getSession(sessionId): one await
SessGet(sessionId) ==
  /\ last' = Completed("getSession", sessionId, RedisLive(redisSession, sessionId, now), 0)
  /\ UNCHANGED <<now, redisSession, call, acked, msgSeq, appendAge, writeAge, NotSession>>

\* getSessionHistory(sessionId): one await
SessHistory(sessionId) ==
  /\ last' = Completed("getSessionHistory", sessionId,
                       RedisLive(redisSession, sessionId, now), 0)
  /\ UNCHANGED <<now, redisSession, call, acked, msgSeq, appendAge, writeAge, NotSession>>

\* clearSession(sessionId): one await
SessClear(sessionId) ==
  /\ redisSession' = RedisDel(redisSession, sessionId)
  /\ acked' = [acked EXCEPT ![sessionId] = <<>>]
  /\ last' = Completed("clearSession", sessionId, RedisLive(redisSession, sessionId, now), 0)
  /\ UNCHANGED <<now, call, msgSeq, appendAge, writeAge, NotSession>>

\* updateSessionActivity: await this.getSession(sessionId); throws when it is null
SessUpdateGet(p, sessionId) ==
  /\ Free(p)
  /\ LET session == GetSession(redisSession, sessionId, now)
     IN IF session = Null
        THEN /\ last' = Completed("updateSessionActivity:notfound", sessionId, FALSE, 0)
             /\ UNCHANGED call
        ELSE /\ call' = [call EXCEPT ![p] =
                           [pc |-> "upd_set", sid |-> sessionId,
                            session |-> session, found |-> TRUE]]
             /\ last' = NoCall
  /\ UNCHANGED <<now, redisSession, acked, msgSeq, appendAge, writeAge, NotSession>>

\* updateSessionActivity: await redis.setex(...); return session
SessUpdateSet(p) ==
  /\ call[p].pc = "upd_set"
  /\ redisSession' = StoreSession(redisSession, call[p].sid, call[p].session, now)
  /\ last' = Completed("updateSessionActivity", call[p].sid,
                       RedisLive(redisSession, call[p].sid, now), 0)
  /\ writeAge' = [writeAge EXCEPT ![call[p].sid] = 0]
  /\ call' = [call EXCEPT ![p] = Idle]
  /\ UNCHANGED <<now, acked, msgSeq, appendAge, NotSession>>

\* addMessage: let session = await this.getSession(sessionId); when one is stored,
\* the message is pushed and the setex issued
SessAddGet(p, sessionId, content) ==
  /\ Free(p)
  /\ msgSeq < MaxMsgs
  /\ LET session == GetSession(redisSession, sessionId, now)
     IN call' = [call EXCEPT ![p] =
                   IF session = Null
                   THEN [pc |-> "add_create", sid |-> sessionId,
                         session |-> UserMessage(content), found |-> FALSE]
                   ELSE [pc |-> "add_set", sid |-> sessionId,
                         session |-> PushMessage(session, UserMessage(content), msgSeq + 1),
                         found |-> TRUE]]
  /\ msgSeq' = msgSeq + 1
  /\ last' = NoCall
  /\ UNCHANGED <<now, redisSession, acked, appendAge, writeAge, NotSession>>

\* addMessage: session = await this.createSession(sessionId); then the push
SessAddCreate(p) ==
  /\ call[p].pc = "add_create"
  /\ \E generated \in (IF Falsy(call[p].sid) THEN FreshIds(redisSession) ELSE {call[p].sid}) :
       LET id == CreateId(call[p].sid, generated)
       IN /\ redisSession' = CreateSessionStore(redisSession, id, now)
          /\ call' = [call EXCEPT
                        ![p].pc = "add_set",
                        ![p].session = PushMessage(SessionData(id), call[p].session, msgSeq)]
          /\ appendAge' = [appendAge EXCEPT ![id] = 0]
          /\ writeAge' = [writeAge EXCEPT ![id] = 0]
  /\ last' = NoCall
  /\ UNCHANGED <<now, acked, msgSeq, NotSession>>

\* addMessage: await redis.setex(...); return session
SessAddSet(p) ==
  /\ call[p].pc = "add_set"
  /\ LET session == call[p].session
     IN /\ redisSession' = StoreSession(redisSession, call[p].sid, session, now)
        /\ acked' = [acked EXCEPT ![call[p].sid] =
                       Append(@, session.messages[Len(session.messages)].messageId)]
        /\ last' = Completed("addMessage", call[p].sid, call[p].found,
                             session.messages[Len(session.messages)].messageId)
  /\ appendAge' = [appendAge EXCEPT ![call[p].sid] = 0]
  /\ writeAge' = [writeAge EXCEPT ![call[p].sid] = 0]
  /\ call' = [call EXCEPT ![p] = Idle]
  /\ UNCHANGED <<now, msgSeq, NotSession>>

Older(age) == IF age + TickSeconds > SESSION_TTL THEN SESSION_TTL ELSE age + TickSeconds

\* Time passes; Redis drops the keys whose time has come.  A clock step is half the
\* session window, and a call in flight (a few Redis round trips) ends within it.
Tick ==
  /\ now < MaxTicks * TickSeconds
  /\ \A p \in Callers : call[p].pc = "idle"
  /\ now' = now + TickSeconds
  /\ redisSession' = RedisPurge(redisSession, now')
  /\ acked' = [id \in SessionIds |->
                 IF RedisLive(redisSession, id, now') THEN acked[id] ELSE <<>>]
  /\ last' = NoCall
  /\ appendAge' = [id \in SessionIds |-> Older(appendAge[id])]
  /\ writeAge' = [id \in SessionIds |-> Older(writeAge[id])]
  /\ UNCHANGED <<call, msgSeq, NotSession>>

(***************************************************************************)
(* Strings.  A query is the sequence of its UTF-16 code units, each named   *)
(* by a one-character string or, for a surrogate, by its code.              *)
(***************************************************************************)
HighSurrogates == {"uD800", "uD801"}
LowSurrogates == {"uDC00"}

\* String to bytes as Hash.update(string) does it (utf8): a surrogate pair is one
\* code point, an unpaired surrogate becomes U+FFFD.  Distinct code points have
\* distinct encodings, so the encoding is kept as the sequence of code points.
RECURSIVE Utf8(_)
Utf8(str) ==
  IF str = <<>> THEN <<>>
  ELSE IF Len(str) >= 2 /\ str[1] \in HighSurrogates /\ str[2] \in LowSurrogates
       THEN <<str[1], str[2]>> \o Utf8(SubSeq(str, 3, Len(str)))
  ELSE IF str[1] \in HighSurrogates \cup LowSurrogates
       THEN <<"uFFFD">> \o Utf8(Tail(str))
  ELSE <<str[1]>> \o Utf8(Tail(str))

UpperCase == <<"A", "B", "C", "D", "E", "F", "G", "H", "I", "J", "K", "L", "M",
               "N", "O", "P", "Q", "R", "S", "T", "U", "V", "W", "X", "Y", "Z">>
LowerCase == <<"a", "b", "c", "d", "e", "f", "g", "h", "i", "j", "k", "l", "m",
               "n", "o", "p", "q", "r", "s", "t", "u", "v", "w", "x", "y", "z">>

UpperCaseLetters == {UpperCase[i] : i \in DOMAIN UpperCase}

\* String.prototype.toLowerCase
ToLowerUnit(c) ==
  IF c \in UpperCaseLetters
  THEN LowerCase[CHOOSE i \in DOMAIN UpperCase : UpperCase[i] = c]
  ELSE c

\* /^[a-zA-Z]+$/.test(str)
IsAlphabetic(str) ==
  /\ str # <<>>
  /\ \A i \in DOMAIN str :
       \E k \in DOMAIN UpperCase : str[i] = UpperCase[k] \/ str[i] = LowerCase[k]

\* String.prototype.includes
Includes(str, sub) ==
  \E i \in 0..(Len(str) - Len(sub)) : SubSeq(str, i + 1, i + Len(sub)) = sub

ToLowerCase(str) == [i \in DOMAIN str |-> ToLowerUnit(str[i])]

\* String.prototype.trim
RECURSIVE TrimStart(_)
TrimStart(str) ==
  IF str # <<>> /\ Head(str) = " " THEN TrimStart(Tail(str)) ELSE str

RECURSIVE TrimEnd(_)
TrimEnd(str) ==
  IF str # <<>> /\ str[Len(str)] = " " THEN TrimEnd(SubSeq(str, 1, Len(str) - 1)) ELSE str

Trim(str) == TrimEnd(TrimStart(str))

\* crypto.createHash("md5").update(query).digest("hex"): a function of the bytes,
\* taken to differ on the different byte strings of the model
Md5Hex(str) == [md5 |-> Utf8(str)]

(***************************************************************************)
(* CacheService (cacheService.js): the RAG answer cache.                   *)
(***************************************************************************)
CACHE_TTL_LONG == 7200

CacheTickSeconds == CACHE_TTL_LONG \div 2

Queries == {<<"h", "i">>, <<"H", "i">>, <<"uD800">>, <<"uD801">>}

\* What ragService.query returns for a generated answer; the timestamp is left out
RagResult(query, answer, sources) ==
  [query |-> query, answer |-> answer, sources |-> sources, contextCount |-> Len(sources)]

\* A source of an answer; the score is in thousandths
Source1 == [title |-> "t1", source |-> "bbc", score |-> 850]

RagResults(query) == {RagResult(query, "a1", <<Source1>>), RagResult(query, "a2", <<>>)}

\* generateKey(namespace, identifier) with no params: `${namespace}:${identifier}`
GenerateKey(namespace, identifier) == <<namespace, identifier>>

\* A key hashed from the trimmed, lower-cased query
RagKeyNormalized(query) == GenerateKey("rag", Md5Hex(ToLowerCase(Trim(query))))

\* The key of a query's cached answer
RagKey(query) == GenerateKey("rag", Md5Hex(query))

\* cacheRAGResponse: cacheData; the timestamp is left out
CacheData(query, response) ==
  [query |-> query, response |-> response, sources |-> response.sources]

\* getCachedRAGResponse: the parsed entry, or null
CachedRAGResponse(store, query, t) ==
  LET cached == RedisGet(store, RagKey(query), t)
  IN IF cached = Null THEN Null ELSE JSONParse(cached)

NoCacheCall == [op |-> "none", query |-> <<>>, data |-> Null, after |-> Null]

CacheInit ==
  /\ redisRag = <<>>
  /\ cacheLast = NoCacheCall
  /\ cachedQueries = {}

\* What the answer cache's own operations leave alone
NotCache == <<sessVars, ragVars, chatVars, compVars, vecVars>>

\* cacheRAGResponse(query, response): one await, returns true
CacheRAGResponse(query, response) ==
  /\ redisRag' = RedisSetex(redisRag, RagKey(query), CACHE_TTL_LONG,
                            JSONStringify(CacheData(query, response)), now)
  /\ cacheLast' = [op |-> "put", query |-> query, data |-> CacheData(query, response),
                   after |-> Null]
  /\ cachedQueries' = cachedQueries \cup {query}
  /\ UNCHANGED <<now, NotCache>>

\* A getCachedRAGResponse that on a hit stored the entry anew, with a new window
GetCachedRAGResponseTouching(query) ==
  /\ cacheLast' = [op |-> "get", query |-> query,
                   data |-> CachedRAGResponse(redisRag, query, now),
                   after |-> IF cacheLast.op = "put" THEN cacheLast.data ELSE Null]
  /\ redisRag' = IF RedisLive(redisRag, RagKey(query), now)
                 THEN RedisSetex(redisRag, RagKey(query), CACHE_TTL_LONG,
                                 RedisGet(redisRag, RagKey(query), now), now)
                 ELSE redisRag
  /\ UNCHANGED <<now, cachedQueries, NotCache>>

\* getCachedRAGResponse(query): one await; "after" is the cacheRAGResponse call, if
\* any, that returned in the step before
GetCachedRAGResponse(query) ==
  /\ cacheLast' = [op |-> "get", query |-> query,
                   data |-> CachedRAGResponse(redisRag, query, now),
                   after |-> IF cacheLast.op = "put" THEN cacheLast.data ELSE Null]
  /\ UNCHANGED <<now, redisRag, cachedQueries, NotCache>>

\* Time passes; Redis drops the cached answers whose time has come
CacheTick ==
  /\ now < MaxTicks * CacheTickSeconds
  /\ now' = now + CacheTickSeconds
  /\ redisRag' = RedisPurge(redisRag, now')
  /\ cacheLast' = NoCacheCall
  /\ UNCHANGED <<cachedQueries, NotCache>>

\* Time passes for the sessions and the cached answers alike, between calls
LongTick ==
  /\ now < MaxTicks * CacheTickSeconds
  /\ \A p \in Callers : call[p].pc = "idle"
  /\ now' = now + CacheTickSeconds
  /\ redisSession' = RedisPurge(redisSession, now')
  /\ acked' = [id \in SessionIds |->
                 IF RedisLive(redisSession, id, now') THEN acked[id] ELSE <<>>]
  /\ last' = NoCall
  /\ appendAge' = [id \in SessionIds |->
                     IF appendAge[id] + CacheTickSeconds > SESSION_TTL
                     THEN SESSION_TTL ELSE appendAge[id] + CacheTickSeconds]
  /\ writeAge' = [id \in SessionIds |->
                    IF writeAge[id] + CacheTickSeconds > SESSION_TTL
                    THEN SESSION_TTL ELSE writeAge[id] + CacheTickSeconds]
  /\ redisRag' = RedisPurge(redisRag, now')
  /\ cacheLast' = NoCacheCall
  /\ UNCHANGED <<call, msgSeq, cachedQueries, ragVars, chatVars, compVars, vecVars>>

(***************************************************************************)
(* RAGService (ragService.js): the Answer Orchestrator.                    *)
(***************************************************************************)
\* handleGreetings: the three lists
Greetings ==
  {<<"h", "i">>, <<"h", "e", "l", "l", "o">>, <<"h", "e", "y">>, <<"h", "i", "i">>,
   <<"h", "i", "i", "i">>, <<"s", "u", "p">>, <<"y", "o">>}

CasualGreetings ==
  {<<"g", "o", "o", "d", " ", "m", "o", "r", "n", "i", "n", "g">>,
   <<"g", "o", "o", "d", " ", "a", "f", "t", "e", "r", "n", "o", "o", "n">>,
   <<"g", "o", "o", "d", " ", "e", "v", "e", "n", "i", "n", "g">>,
   <<"h", "o", "w", "d", "y">>}

QuestionGreetings ==
  {<<"h", "o", "w", " ", "a", "r", "e", " ", "y", "o", "u">>,
   <<"h", "o", "w", " ", "r", " ", "u">>,
   <<"w", "h", "a", "t", "s", " ", "u", "p">>,
   <<"w", "h", "a", "t", "'", "s", " ", "u", "p">>,
   <<"h", "o", "w", " ", "d", "o", " ", "y", "o", "u", " ", "d", "o">>}

\* handleGreetings: a canned response (named by its opening words), or "" for the
\* null that sends the query on to retrieval
NoGreeting == ""

HandleGreetings(query) ==
  LET lowerQuery == Trim(ToLowerCase(query))
  IN IF lowerQuery \in Greetings
       THEN "Hello! I'm your news assistant."
     ELSE IF \E greeting \in CasualGreetings : Includes(lowerQuery, greeting)
       THEN "Good day! I'm here to help you stay updated with the latest news."
     ELSE IF \E question \in QuestionGreetings : Includes(lowerQuery, question)
       THEN "I'm doing great, thanks for asking!"
     ELSE IF Len(lowerQuery) <= 2 /\ IsAlphabetic(lowerQuery)
       THEN "Hi there! I'm your news assistant."
     ELSE NoGreeting

\* query: the result returned for a greeting; the timestamp is left out
GreetingResult(userQuery, greetingResponse) ==
  [query |-> userQuery, answer |-> greetingResponse, sources |-> <<>>,
   contextCount |-> 0, fallback |-> TRUE]

\* The queries put to the orchestrator
RagQueries ==
  {<<"h", "i">>, <<" ", "H", "i", " ">>, <<"h", "i", "g", "h">>,
   <<"G", "o", "o", "d", " ", "m", "o", "r", "n", "i", "n", "g", "!">>,
   <<"w", "h", "a", "t", "s", " ", "u", "p">>,
   <<"o", "k">>, <<"a", "1">>, <<"n", "e", "w", "s">>, <<" ">>, <<>>}

\* What retrieveContext hands to generateResponse: the passages that passed its
\* filter, each with its text, score (in thousandths) and payload
Passage1 == [text |-> "p1", score |-> 850, metadata |-> [title |-> "t1", source |-> "bbc"]]

Contexts == {<<>>, <<Passage1>>}

\* generateResponse: sources
SourcesOf(context) ==
  [i \in DOMAIN context |->
     [title |-> context[i].metadata.title, source |-> context[i].metadata.source,
      score |-> context[i].score]]

Answers == {"a1", "a2"}

RagIdle == [pc |-> "idle", query |-> <<>>, invoked |-> {}, initialized |-> FALSE,
            context |-> <<>>]

NoRagCall == [outcome |-> "none", query |-> <<>>, result |-> Null, invoked |-> {},
              initialized |-> FALSE]

\* query's return and its throw: the collaborators the call invoked, and the flag's
\* value when the call started
RagCallEnded(c, outcome, result) ==
  [outcome |-> outcome, query |-> c.query, result |-> result, invoked |-> c.invoked,
   initialized |-> c.initialized]

RagInit ==
  /\ ragCall = RagIdle
  /\ ragLast = NoRagCall

\* What the orchestrator's own operations leave alone
NotRag == <<now, sessVars, cacheVars, chatVars, compVars, vecVars>>

\* query, from "Validate query before processing" to its first await: the empty
\* query throws, a greeting returns, anything else goes to retrieveContext
QueryBody(c) ==
  IF Trim(c.query) = <<>>
  THEN /\ ragLast' = RagCallEnded(c, "threw", Null)
       /\ ragCall' = RagIdle
  ELSE IF HandleGreetings(Trim(c.query)) # NoGreeting
  THEN /\ ragLast' = RagCallEnded(c, "returned",
                                  GreetingResult(c.query, HandleGreetings(Trim(c.query))))
       /\ ragCall' = RagIdle
  ELSE /\ ragLast' = NoRagCall
       /\ ragCall' = [c EXCEPT !.pc = "embed"]

\* query(userQuery): if (!this.isInitialized) await this.initialize(); ...
RagQuery(userQuery) ==
  /\ ragCall.pc = "idle"
  /\ LET c == [RagIdle EXCEPT !.query = userQuery, !.initialized = isInitialized]
     IN IF ~isInitialized
        THEN /\ ragCall' = [c EXCEPT !.pc = "init_connect"]
             /\ ragLast' = NoRagCall
        ELSE QueryBody(c)
  /\ UNCHANGED <<isInitialized, hasPoints, NotRag>>

\* A step of the call in flight that ends it with a throw
RagThrow(c) ==
  /\ ragLast' = RagCallEnded(c, "threw", Null)
  /\ ragCall' = RagIdle

\* A step of the call in flight that takes it to the next await
RagGoto(c, pc) ==
  /\ ragLast' = NoRagCall
  /\ ragCall' = [c EXCEPT !.pc = pc]

Invoking(collaborator) == [ragCall EXCEPT !.invoked = @ \cup {collaborator}]

\* initialize: await vectorService.connect()
RagInitConnect(ok) ==
  /\ ragCall.pc = "init_connect"
  /\ IF ok THEN RagGoto(Invoking("vector"), "init_ensure") ELSE RagThrow(Invoking("vector"))
  /\ UNCHANGED <<isInitialized, hasPoints, NotRag>>

\* initialize: await vectorService.ensureCollection()
RagInitEnsure(ok) ==
  /\ ragCall.pc = "init_ensure"
  /\ IF ok THEN RagGoto(Invoking("vector"), "init_info") ELSE RagThrow(Invoking("vector"))
  /\ UNCHANGED <<isInitialized, hasPoints, NotRag>>

\* initialize: await vectorService.getCollectionInfo(), which reports no points when
\* it fails; with points the flag is set and query goes on, without them the
\* knowledge base is built
RagInitInfo(ok) ==
  /\ ragCall.pc = "init_info"
  /\ IF ok /\ hasPoints
     THEN /\ isInitialized' = TRUE
          /\ QueryBody(Invoking("vector"))
     ELSE /\ RagGoto(Invoking("vector"), "build_articles")
          /\ UNCHANGED isInitialized
  /\ UNCHANGED <<hasPoints, NotRag>>

\* buildKnowledgeBase: await newsService.getArticles(true); no articles, or a
\* failure, resets the flag and throws
RagBuildArticles(ok) ==
  /\ ragCall.pc = "build_articles"
  /\ IF ok
     THEN /\ RagGoto(Invoking("news"), "build_embed")
          /\ UNCHANGED isInitialized
     ELSE /\ RagThrow(Invoking("news"))
          /\ isInitialized' = FALSE
  /\ UNCHANGED <<hasPoints, NotRag>>

\* buildKnowledgeBase: await embeddingService.batchGenerateEmbeddings(allChunks)
RagBuildEmbed(ok) ==
  /\ ragCall.pc = "build_embed"
  /\ IF ok
     THEN /\ RagGoto(Invoking("embedding"), "build_store")
          /\ UNCHANGED isInitialized
     ELSE /\ RagThrow(Invoking("embedding"))
          /\ isInitialized' = FALSE
  /\ UNCHANGED <<hasPoints, NotRag>>

\* buildKnowledgeBase: await vectorService.storeEmbeddings(...); the flag is set and
\* query goes on
RagBuildStore(ok) ==
  /\ ragCall.pc = "build_store"
  /\ IF ok
     THEN /\ hasPoints' = TRUE
          /\ isInitialized' = TRUE
          /\ QueryBody(Invoking("vector"))
     ELSE /\ RagThrow(Invoking("vector"))
          /\ isInitialized' = FALSE
          /\ UNCHANGED hasPoints
  /\ UNCHANGED NotRag

\* retrieveContext: await embeddingService.generateQueryEmbedding(query)
RagRetrieveEmbed(ok) ==
  /\ ragCall.pc = "embed"
  /\ IF ok THEN RagGoto(Invoking("embedding"), "search") ELSE RagThrow(Invoking("embedding"))
  /\ UNCHANGED <<isInitialized, hasPoints, NotRag>>

\* retrieveContext: await vectorService.searchSimilar(...), then the filter; an
\* empty collection gives no passage
RagRetrieveSearch(ok, context) ==
  /\ ragCall.pc = "search"
  /\ hasPoints \/ context = <<>>
  /\ IF ok
     THEN RagGoto([Invoking("vector") EXCEPT !.context = context], "generate")
     ELSE RagThrow(Invoking("vector"))
  /\ UNCHANGED <<isInitialized, hasPoints, NotRag>>

\* generateResponse: await this.model.generateContent(prompt); query returns
RagGenerate(ok, answer) ==
  /\ ragCall.pc = "generate"
  /\ IF ok
     THEN /\ ragLast' = RagCallEnded(Invoking("generation"), "returned",
                                     RagResult(ragCall.query, answer, SourcesOf(ragCall.context)))
          /\ ragCall' = RagIdle
     ELSE RagThrow(Invoking("generation"))
  /\ UNCHANGED <<isInitialized, hasPoints, NotRag>>

\* DELETE /api/chat/collection: the collection is emptied
ClearCollection ==
  /\ ragCall.pc = "idle"
  /\ hasPoints
  /\ hasPoints' = FALSE
  /\ ragLast' = NoRagCall
  /\ UNCHANGED <<isInitialized, ragCall, NotRag>>

(***************************************************************************)
(* RAGService.retrieveContext (ragService.js): the candidates the Vector   *)
(* Index returns, filtered.  Scores are in thousandths.                    *)
(***************************************************************************)
\* The most candidates the collection has to return
MaxFound == 4

SCORE_THRESHOLD == 700
MIN_WORDS == 20

\* The largest topK asked for
MaxTopK == 2

TopKs == 1..MaxTopK

RECURSIVE Repeat(_, _)
Repeat(str, n) == IF n = 0 THEN <<>> ELSE str \o Repeat(str, n - 1)

\* Passage texts: twenty words with "News" among them, nineteen such words, twenty
\* words of which none is a word of a query
RelevantText == <<"N", "e", "w", "s">> \o Repeat(<<" ", "a">>, MIN_WORDS - 1)
ShortText == <<"N", "e", "w", "s">> \o Repeat(<<" ", "a">>, MIN_WORDS - 2)
OtherText == <<"T", "e", "x", "t">> \o Repeat(<<" ", "a">>, MIN_WORDS - 1)

Texts == <<RelevantText, ShortText, OtherText>>

Scores == {910, 830, 700, 400}

\* The queries: "Latest NEWS", and "is it", which has no word longer than two
RetrieveQueries ==
  {<<"L", "a", "t", "e", "s", "t", " ", "N", "E", "W", "S">>, <<"i", "s", " ", "i", "t">>}

\* searchSimilar's results: text, score, metadata (the payload, left out)
Candidate(text, score) == [text |-> text, score |-> score]

\* The sequences of at most n points of the collection, each a passage text (by its
\* place in Texts) and its score, scored best or less, the best score first
RECURSIVE Ranked(_, _)
Ranked(n, best) ==
  IF n = 0 THEN {<<>>}
  ELSE {<<>>} \cup
       UNION {{<<<<t, score>>>> \o rest : rest \in Ranked(n - 1, score)} :
                t \in DOMAIN Texts, score \in {sc \in Scores : sc <= best}}

\* What client.search can find for a limit: at most that many points, the best
\* score first
SearchResults(limit) == Ranked(IF limit < MaxFound THEN limit ELSE MaxFound, 1000)

\* searchSimilar: searchResult.map(...)
Candidates(found) == [i \in DOMAIN found |-> Candidate(Texts[found[i][1]], found[i][2])]

\* String.prototype.split(" ")
Split(str) ==
  LET spaces == SelectSeq([i \in 1..Len(str) |-> i], LAMBDA i : str[i] = " ")
      cuts == <<0>> \o spaces \o <<Len(str) + 1>>
  IN [k \in 1..(Len(spaces) + 1) |-> SubSeq(str, cuts[k] + 1, cuts[k + 1] - 1)]

\* Array.prototype.slice(0, n)
Slice(seq, n) == SubSeq(seq, 1, IF n < Len(seq) THEN n ELSE Len(seq))

\* A filter that keeps a candidate whatever its score
PassesFilterAnyScore(query, result) ==
  LET wordCount == Len(Split(result.text))
      queryWords == SelectSeq(Split(ToLowerCase(query)), LAMBDA word : Len(word) > 2)
      content == ToLowerCase(result.text)
      relevantMatches == Len(SelectSeq(queryWords, LAMBDA word : Includes(content, word)))
  IN IF wordCount < MIN_WORDS THEN FALSE
     ELSE relevantMatches >= 1

\* retrieveContext: the callback of candidates.filter
PassesFilter(query, result) ==
  LET wordCount == Len(Split(result.text))
      queryWords == SelectSeq(Split(ToLowerCase(query)), LAMBDA word : Len(word) > 2)
      content == ToLowerCase(result.text)
      relevantMatches == Len(SelectSeq(queryWords, LAMBDA word : Includes(content, word)))
  IN IF result.score < SCORE_THRESHOLD THEN FALSE
     ELSE IF wordCount < MIN_WORDS THEN FALSE
     ELSE relevantMatches >= 1

\* A filter that hands back the candidates it keeps last first
FilteredLastFirst(query, candidates, topK) ==
  LET kept == Slice(SelectSeq(candidates, LAMBDA result : PassesFilter(query, result)), topK)
  IN [i \in 1..Len(kept) |-> kept[Len(kept) + 1 - i]]

\* retrieveContext: candidates.filter(...).slice(0, topK)
Filtered(query, candidates, topK) ==
  Slice(SelectSeq(candidates, LAMBDA result : PassesFilter(query, result)), topK)

RetrIdle == [pc |-> "idle", query |-> <<>>, topK |-> 0, limit |-> 0,
             candidates |-> <<>>, filtered |-> <<>>]

RetrInit == retr = RetrIdle

\* What retrieveContext leaves alone
NotRetr == <<now, sessVars, cacheVars, ragVars, chatVars, emb, lim, coll, join, vecVars>>

\* retrieveContext(query, topK), to await embeddingService.generateQueryEmbedding
RetrieveContext(query, topK) ==
  /\ retr.pc = "idle"
  /\ retr' = [RetrIdle EXCEPT !.pc = "embed", !.query = query, !.topK = topK]
  /\ UNCHANGED NotRetr

\* The query's embedding arrives, or generateQueryEmbedding throws; on to
\* await vectorService.searchSimilar(queryEmbedding, topK * 2)
RetrieveEmbed(ok) ==
  /\ retr.pc = "embed"
  /\ retr' = IF ok THEN [retr EXCEPT !.pc = "search", !.limit = retr.topK * 2]
             ELSE [retr EXCEPT !.pc = "threw"]
  /\ UNCHANGED NotRetr

\* searchSimilar returns the candidates, which are filtered and returned
RetrieveSearch(candidates) ==
  /\ retr.pc = "search"
  /\ retr' = [retr EXCEPT !.pc = "returned", !.candidates = candidates,
                          !.filtered = Filtered(retr.query, candidates, retr.topK)]
  /\ UNCHANGED NotRetr

\* searchSimilar throws
RetrieveSearchThrows ==
  /\ retr.pc = "search"
  /\ retr' = [retr EXCEPT !.pc = "threw"]
  /\ UNCHANGED NotRetr

(***************************************************************************)
(* EmbeddingService.generateEmbeddings (embeddingService.js): one request  *)
(* to the embedding service per attempt, the response validated, transient *)
(* failures retried after a delay.  A vector is kept as what the           *)
(* validation can tell of it: whether it is an array, its length, whether  *)
(* all its components are finite numbers.                                  *)
(***************************************************************************)
expectedDimension == 768
maxRetries == 3
baseRetryDelay == 2000

RECURSIVE Pow2(_)
Pow2(n) == IF n = 0 THEN 1 ELSE 2 * Pow2(n - 1)

\* String(n) for a number n >= 0
RECURSIVE Digits(_)
Digits(n) ==
  LET digit == <<"0", "1", "2", "3", "4", "5", "6", "7", "8", "9">>[(n % 10) + 1]
  IN IF n < 10 THEN <<digit>> ELSE Append(Digits(n \div 10), digit)

\* The vectors a response can carry: a well-formed one, one a component short, one
\* with a component that is no finite number (null), and an item without embedding
Vector(array, length, finite) == [array |-> array, length |-> length, finite |-> finite]
GoodVector == Vector(TRUE, expectedDimension, TRUE)
ShortVector == Vector(TRUE, expectedDimension - 1, TRUE)
NullVector == Vector(TRUE, expectedDimension, FALSE)
NoVector == Vector(FALSE, 0, FALSE)

VectorKinds == {GoodVector, ShortVector, NullVector, NoVector}

\* The most items in a response body
MaxItems == 2

\* What axios.post ends with: a 2xx response with an array of items or with another
\* body, a response with an error status, or no response and an error code
Responded(items) == [kind |-> "data", items |-> items, status |-> 200, code |-> ""]
Malformed == [kind |-> "body", items |-> <<>>, status |-> 200, code |-> ""]
Failed(status) == [kind |-> "status", items |-> <<>>, status |-> status, code |-> "ERR_BAD_RESPONSE"]
Unreached(code) == [kind |-> "code", items |-> <<>>, status |-> 0, code |-> code]

RetryableStatuses == {429, 500, 502, 503, 504}
RetryableCodes == {"ECONNRESET", "ETIMEDOUT", "ECONNABORTED"}

Responses ==
  {Responded(items) : items \in UNION {[1..n -> VectorKinds] : n \in 1..MaxItems}}
    \cup {Malformed}
    \cup {Failed(status) : status \in RetryableStatuses \cup {400, 401}}
    \cup {Unreached(code) : code \in RetryableCodes \cup {"ENOTFOUND"}}

\* The messages of the errors axios rejects with
AxiosMessage(response) ==
  IF response.kind = "status"
  THEN <<"R", "e", "q", "u", "e", "s", "t", " ", "f", "a", "i", "l", "e", "d", " ",
         "w", "i", "t", "h", " ", "s", "t", "a", "t", "u", "s", " ", "c", "o", "d",
         "e", " ">>
         \o Digits(response.status)
  ELSE IF response.code = "ECONNABORTED"
  THEN <<"t", "i", "m", "e", "o", "u", "t", " ", "o", "f", " ", "7", "5", "0", "0",
         "0", "m", "s", " ", "e", "x", "c", "e", "e", "d", "e", "d">>
  ELSE IF response.code = "ECONNRESET"
  THEN <<"r", "e", "a", "d", " ", "E", "C", "O", "N", "N", "R", "E", "S", "E", "T">>
  ELSE IF response.code = "ETIMEDOUT"
  THEN <<"c", "o", "n", "n", "e", "c", "t", " ", "E", "T", "I", "M", "E", "D", "O",
         "U", "T">>
  ELSE <<"g", "e", "t", "a", "d", "d", "r", "i", "n", "f", "o", " ", "E", "N", "O",
         "T", "F", "O", "U", "N", "D", " ", "a", "p", "i", ".", "j", "i", "n", "a",
         ".", "a", "i">>

\* An error as isRetryableError reads it: message, response status (0: none), code
Error(message, status, code) == [message |-> message, status |-> status, code |-> code]

NoError == Error(<<>>, 0, "")

InvalidFormat ==
  Error(<<"I", "n", "v", "a", "l", "i", "d", " ", "r", "e", "s", "p", "o", "n", "s",
          "e", " ", "f", "o", "r", "m", "a", "t", " ", "f", "r", "o", "m", " ", "J",
          "i", "n", "a", " ", "A", "P", "I">>, 0, "")

NotAnArray(i) ==
  Error(<<"E", "m", "b", "e", "d", "d", "i", "n", "g", " ">> \o Digits(i)
          \o <<" ", "i", "s", " ", "n", "o", "t", " ", "a", "n", " ", "a", "r", "r",
               "a", "y", ":", " ", "u", "n", "d", "e", "f", "i", "n", "e", "d">>, 0, "")

DimensionMismatch(i, length) ==
  Error(<<"I", "n", "v", "a", "l", "i", "d", " ", "e", "m", "b", "e", "d", "d", "i",
          "n", "g", " ", "d", "i", "m", "e", "n", "s", "i", "o", "n", " ", "a", "t",
          " ", "i", "n", "d", "e", "x", " ">>
          \o Digits(i) \o <<":", " ">> \o Digits(length)
          \o <<",", " ", "e", "x", "p", "e", "c", "t", "e", "d", " ">>
          \o Digits(expectedDimension), 0, "")

\* The first item the validation loop rejects, 0 if it rejects none
FirstInvalid(embeddings) ==
  IF \A i \in DOMAIN embeddings :
       embeddings[i].array /\ embeddings[i].length = expectedDimension
  THEN 0
  ELSE CHOOSE i \in DOMAIN embeddings :
         /\ ~(embeddings[i].array /\ embeddings[i].length = expectedDimension)
         /\ \A j \in 1..(i - 1) :
              embeddings[j].array /\ embeddings[j].length = expectedDimension

\* The try block after the response: the error it throws, NoError if it returns;
\* the loop counts items from 0
Thrown(response) ==
  IF response.kind \in {"status", "code"}
  THEN Error(AxiosMessage(response), response.status, response.code)
  ELSE IF response.kind = "body" THEN InvalidFormat
  ELSE LET i == FirstInvalid(response.items)
       IN IF i = 0 THEN NoError
          ELSE IF ~response.items[i].array THEN NotAnArray(i - 1)
          ELSE DimensionMismatch(i - 1, response.items[i].length)

\* An error classification that retries whatever failed
IsRetryableErrorAlways(error) == TRUE

\* isRetryableError(error)
IsRetryableError(error) ==
  LET message == ToLowerCase(error.message)
  IN IF \/ Includes(message, <<"d", "i", "m", "e", "n", "s", "i", "o", "n">>)
        \/ Includes(message, <<"i", "n", "v", "a", "l", "i", "d", " ", "e", "m", "b",
                               "e", "d", "d", "i", "n", "g">>)
     THEN FALSE
     ELSE \/ error.status \in RetryableStatuses
          \/ error.code \in RetryableCodes
          \/ Includes(message, <<"t", "i", "m", "e", "o", "u", "t">>)

\* A delay that does not grow
RetryDelayFixed(retryCount) == baseRetryDelay

\* const delay = this.baseRetryDelay * Math.pow(2, retryCount)
RetryDelay(retryCount) == baseRetryDelay * Pow2(retryCount)

\* texts, cleaned: trimmed (and cut to 4000 characters, more than any text here
\* has), those of more than two characters kept
CleanTexts(texts) == SelectSeq([i \in DOMAIN texts |-> Trim(texts[i])], LAMBDA text : Len(text) > 2)

\* The texts to embed: none, one too short to keep, a query, a query and a blank
EmbedTexts ==
  {<<>>, <<<<"h", "i">>>>, <<<<"n", "e", "w", "s">>>>, <<<<"n", "e", "w", "s">>, <<" ">>>>}

EmbIdle == [pc |-> "idle", texts |-> <<>>, retryCount |-> 0, requests |-> 0,
            delays |-> <<>>, log |-> <<>>, embeddings |-> <<>>, error |-> NoError]

EmbInit == emb = EmbIdle

\* What generateEmbeddings leaves alone
NotEmb == <<now, sessVars, cacheVars, ragVars, chatVars, retr, lim, coll, join, vecVars>>

\* generateEmbeddings(texts) up to its await of axios.post: without an API key it
\* throws, without a text left after cleaning it returns []; the texts it sends
\* (short ones wrapped in a sentence) are the service's business
GenerateEmbeddings(texts, jinaApiKey) ==
  /\ emb.pc = "idle"
  /\ emb' = IF ~jinaApiKey THEN [EmbIdle EXCEPT !.pc = "threw", !.texts = texts]
            ELSE IF Len(CleanTexts(texts)) = 0
            THEN [EmbIdle EXCEPT !.pc = "returned", !.texts = texts]
            ELSE [EmbIdle EXCEPT !.pc = "request", !.texts = texts, !.requests = 1]
  /\ UNCHANGED NotEmb

\* axios.post ends: the embeddings are validated and returned, or the catch block
\* schedules the next attempt or throws
EmbedResponse(response) ==
  /\ emb.pc = "request"
  /\ LET error == Thrown(response)
         log == Append(emb.log, response)
     IN emb' = IF error = NoError
               THEN [emb EXCEPT !.pc = "returned", !.log = log,
                                !.embeddings = response.items]
               ELSE IF emb.retryCount < maxRetries /\ IsRetryableError(error)
               THEN [emb EXCEPT !.pc = "wait", !.log = log,
                                !.delays = Append(@, RetryDelay(emb.retryCount))]
               ELSE [emb EXCEPT !.pc = "threw", !.log = log, !.error = error]
  /\ UNCHANGED NotEmb

\* The delay has passed: return this.generateEmbeddings(texts, retryCount + 1)
EmbedRetry ==
  /\ emb.pc = "wait"
  /\ emb' = [emb EXCEPT !.pc = "request", !.retryCount = @ + 1, !.requests = @ + 1]
  /\ UNCHANGED NotEmb

\* The texts handed to batchGenerateEmbeddings and generateQueryEmbedding: a passage,
\* a word of two letters, a blank
BatchTexts == {<<"n", "e", "w", "s">>, <<"h", "i">>, <<" ">>}

\* The most texts in one call
MaxBatchTexts == 3

BatchInputs == UNION {[1..n -> BatchTexts] : n \in 0..MaxBatchTexts}

\* batchSize: the default, and one that splits the texts here into batches
BatchSizes == {2, 12}

\* The embedding the service computes for a text sent to it
VectorOf(text) == [array |-> TRUE, length |-> expectedDimension, finite |-> TRUE, of |-> text]

\* What generateEmbeddings(texts) returns when the service answers with one embedding
\* for each text it was sent, in order: the embeddings of the cleaned texts
Embedded(texts) ==
  LET cleanTexts == CleanTexts(texts)
  IN [i \in DOMAIN cleanTexts |-> VectorOf(cleanTexts[i])]

\* texts.slice(i, i + batchSize), i counted from 0
BatchOf(texts, i, batchSize) ==
  SubSeq(texts, i + 1, IF i + batchSize < Len(texts) THEN i + batchSize ELSE Len(texts))

\* batchGenerateEmbeddings(texts, batchSize) up to its loop
BatchGenerateEmbeddings(texts, batchSize) ==
  /\ emb.pc = "idle"
  /\ emb' = [pc |-> IF Len(texts) = 0 THEN "batch_returned" ELSE "batch",
             texts |-> texts, i |-> 0, batchSize |-> batchSize, embeddings |-> <<>>]
  /\ UNCHANGED NotEmb

\* One turn of the loop: generateEmbeddings(batch) returns and its embeddings are
\* pushed onto allEmbeddings, or it throws and so does batchGenerateEmbeddings
BatchNext(ok) ==
  /\ emb.pc = "batch"
  /\ emb' = IF ok
            THEN [emb EXCEPT !.embeddings = @ \o Embedded(BatchOf(emb.texts, emb.i, emb.batchSize)),
                             !.i = @ + emb.batchSize,
                             !.pc = IF emb.i + emb.batchSize < Len(emb.texts) THEN "batch"
                                    ELSE "batch_returned"]
            ELSE [emb EXCEPT !.pc = "threw"]
  /\ UNCHANGED NotEmb

\* embeddings[0] of an array: undefined when it is empty
First(embeddings) == IF Len(embeddings) = 0 THEN Null ELSE embeddings[1]

\* generateQueryEmbedding(query): generateEmbeddings([query]) and its first element
GenerateQueryEmbedding(query, ok) ==
  /\ emb.pc = "idle"
  /\ emb' = IF ok
            THEN [pc |-> "query_returned", texts |-> <<query>>, i |-> 0, batchSize |-> 1,
                  embeddings |-> <<First(Embedded(<<query>>))>>]
            ELSE [pc |-> "threw", texts |-> <<query>>, i |-> 0, batchSize |-> 1,
                  embeddings |-> <<>>]
  /\ UNCHANGED NotEmb

(***************************************************************************)
(* ErrorHandler.rateLimitHandler (errorHandler.js) as server.js mounts it  *)
(* on /api/chat.  Times are milliseconds of Date.now().                    *)
(***************************************************************************)
windowMs == 60000
max == 10

\* The clock advances in steps of half a window, this many times at most
MaxLimitTicks == 2

LimitTickMs == windowMs \div 2

\* req.ip: an address that sends as it likes, and one that sends a few requests
Ips == {"ip1", "ip2"}

\* The most requests the second address sends
MaxOtherRequests == 2

\* Math.ceil(windowMs / 1000)
RetryAfter(ms) == (ms + 999) \div 1000

NoAnswer == [ip |-> "", status |-> 0, retryAfter |-> 0, next |-> FALSE, at |-> 0]

\* res.status(429).json({..., retryAfter})
TooManyRequests(ip, at) ==
  [ip |-> ip, status |-> 429, retryAfter |-> RetryAfter(windowMs), next |-> FALSE, at |-> at]

\* next()
PassedOn(ip, at) == [ip |-> ip, status |-> 0, retryAfter |-> 0, next |-> TRUE, at |-> at]

LimInit ==
  lim = [clock |-> 0, ticks |-> 0,
         rateLimitStore |-> [ip \in Ips |-> <<>>],
         passed |-> [ip \in Ips |-> <<>>],
         handled |-> [ip \in Ips |-> <<>>],
         answer |-> NoAnswer]

\* What the rate limiter leaves alone
NotLim == <<now, sessVars, cacheVars, ragVars, chatVars, retr, emb, coll, join, vecVars>>

\* The requests of the store still in the window
ValidRequests(clientRequests, windowStart) ==
  SelectSeq(clientRequests, LAMBDA time : time > windowStart)

\* A limiter that lets one request more through
RateLimitOneMore(clientId) ==
  LET windowStart == lim.clock - windowMs
      validRequests == ValidRequests(lim.rateLimitStore[clientId], windowStart)
  IN /\ lim' = IF Len(validRequests) > max
               THEN [lim EXCEPT !.answer = TooManyRequests(clientId, lim.clock)]
               ELSE [lim EXCEPT !.rateLimitStore[clientId] = Append(validRequests, lim.clock),
                                !.passed[clientId] = Append(@, lim.clock),
                                !.answer = PassedOn(clientId, lim.clock)]
     /\ UNCHANGED NotLim

\* rateLimitHandler(req, res, next, {windowMs: 60000, max: 10}) for a request to
\* /api/chat from clientId
RateLimitHandler(clientId) ==
  LET windowStart == lim.clock - windowMs
      validRequests == ValidRequests(lim.rateLimitStore[clientId], windowStart)
  IN /\ lim' = IF Len(validRequests) >= max
               THEN [lim EXCEPT !.answer = TooManyRequests(clientId, lim.clock)]
               ELSE [lim EXCEPT !.rateLimitStore[clientId] = Append(validRequests, lim.clock),
                                !.passed[clientId] = Append(@, lim.clock),
                                !.answer = PassedOn(clientId, lim.clock)]
     /\ UNCHANGED NotLim

\* The most chat-message events a client sends over its connection
MaxSocketEvents == max + 1

\* socket.on("chat-message") for an event of a client that has joined a session,
\* with a message: the handler goes on to sessionService.addMessage and the
\* orchestrator.  The events of a connection do not pass through app.use, where
\* the rate limiter is.
ChatMessageEvent(clientId) ==
  /\ Len(lim.handled[clientId]) < MaxSocketEvents
  /\ lim' = [lim EXCEPT !.handled[clientId] = Append(@, lim.clock), !.answer = NoAnswer]
  /\ UNCHANGED NotLim

\* Date.now() moves on
LimitTick ==
  /\ lim.ticks < MaxLimitTicks
  /\ lim' = [lim EXCEPT !.clock = @ + LimitTickMs, !.ticks = @ + 1, !.answer = NoAnswer]
  /\ UNCHANGED NotLim

(***************************************************************************)
(* VectorService.recreateCollection (ragService.js): clearCollection, a    *)
(* pause, ensureCollection, against the collection Qdrant holds.           *)
(***************************************************************************)
\* The most points the collection holds
MaxPoints == 3

\* No collection yet, no call in flight.  before: the points held when
\* recreateCollection was called; clearSuccess: what clearCollection returned
CollIdle == [exists |-> FALSE, points |-> 0, pc |-> "idle", before |-> 0,
             clearSuccess |-> "none", followed |-> FALSE]

CollInit == coll = CollIdle

\* What the collection's operations leave alone
NotColl == <<now, sessVars, cacheVars, ragVars, chatVars, retr, emb, lim, join, vecVars>>

\* No recreateCollection call in flight: ensureCollection creates the collection
CollectionCreated ==
  /\ coll.pc \in {"idle", "returned", "ensured", "threw"}
  /\ ~coll.exists
  /\ coll' = [coll EXCEPT !.pc = "idle", !.exists = TRUE, !.points = 0]
  /\ UNCHANGED NotColl

\* No recreateCollection call in flight: storeEmbeddings upserts a point
PointStored ==
  /\ coll.pc \in {"idle", "returned", "ensured", "threw"}
  /\ coll.exists
  /\ coll.points < MaxPoints
  /\ coll' = [coll EXCEPT !.pc = "idle", !.points = @ + 1]
  /\ UNCHANGED NotColl

\* recreateCollection(), to clearCollection's await this.ensureConnection()
RecreateCollection ==
  /\ coll.pc \in {"idle", "returned", "ensured", "threw"}
  /\ coll' = [coll EXCEPT !.pc = "clear_connect", !.before = coll.points,
                          !.clearSuccess = "none", !.followed = FALSE]
  /\ UNCHANGED NotColl

\* clearCollection returns; recreateCollection warns when it returned false and goes
\* on to its pause
Cleared(success) == [coll EXCEPT !.pc = "wait", !.clearSuccess = success]

\* clearCollection: ensureConnection returns, or throws into the catch: return false
ClearConnect(ok) ==
  /\ coll.pc = "clear_connect"
  /\ coll' = IF ok THEN [coll EXCEPT !.pc = "clear_get"] ELSE Cleared("false")
  /\ UNCHANGED NotColl

\* clearCollection: client.getCollection finds the collection, reports "Not found"
\* (return true), or fails otherwise (return false)
ClearGet(ok) ==
  /\ coll.pc = "clear_get"
  /\ coll' = IF ~ok THEN Cleared("false")
             ELSE IF coll.exists THEN [coll EXCEPT !.pc = "clear_delete"]
             ELSE Cleared("true")
  /\ UNCHANGED NotColl

\* clearCollection: client.deleteCollection deletes the collection (return true), or
\* fails and leaves it (return false)
ClearDelete(ok) ==
  /\ coll.pc = "clear_delete"
  /\ coll' = IF ok THEN [Cleared("true") EXCEPT !.exists = FALSE, !.points = 0]
             ELSE Cleared("false")
  /\ UNCHANGED NotColl

\* await new Promise((resolve) => setTimeout(resolve, 1000)), then ensureCollection
RecreateWait ==
  /\ coll.pc = "wait"
  /\ coll' = [coll EXCEPT !.pc = "ensure_connect"]
  /\ UNCHANGED NotColl

\* ensureCollection has returned: recreateCollection returns true
Ensured == [coll EXCEPT !.pc = IF coll.followed THEN "ensured" ELSE "returned"]

\* ensureCollection: ensureConnection returns, or throws
EnsureConnect(ok) ==
  /\ coll.pc = "ensure_connect"
  /\ coll' = [coll EXCEPT !.pc = IF ok THEN "ensure_list" ELSE "threw"]
  /\ UNCHANGED NotColl

\* ensureCollection: client.getCollections lists the collection (it already exists),
\* does not list it (on to createCollection), or throws
EnsureList(ok) ==
  /\ coll.pc = "ensure_list"
  /\ coll' = IF ~ok THEN [coll EXCEPT !.pc = "threw"]
             ELSE IF coll.exists THEN Ensured
             ELSE [coll EXCEPT !.pc = "ensure_create"]
  /\ UNCHANGED NotColl

\* ensureCollection: client.createCollection creates the empty collection, or throws
EnsureCreate(ok) ==
  /\ coll.pc = "ensure_create"
  /\ coll' = IF ok THEN [Ensured EXCEPT !.exists = TRUE, !.points = 0]
             ELSE [coll EXCEPT !.pc = "threw"]
  /\ UNCHANGED NotColl

\* ensureCollection() called after recreateCollection has returned
EnsureCollection ==
  /\ coll.pc = "returned"
  /\ coll' = [coll EXCEPT !.pc = "ensure_connect", !.followed = TRUE]
  /\ UNCHANGED NotColl

(***************************************************************************)
(* The chat handlers: socket.on("chat-message") (socketService.js) and     *)
(* POST /api/chat (routes/chat.js), with the join-session and disconnect   *)
(* handlers that decide whether a connection is joined.                    *)
(***************************************************************************)
Sockets == {"c1", "c2"}

\* The chat requests, each handled once; "http" is where a POST /api/chat arrives
Requests == {"r1", "r2"}

News == <<"n", "e", "w", "s">>

\* The messages clients send: a question, a single letter (a greeting to the
\* orchestrator, a short message to the route), a blank
ChatMessages == {News, <<"a">>, <<" ">>}

\* data.message of an event that has none (undefined): told from every string by
\* its one element, which is no character
NoMessage == <<"undefined">>

\* The message of a chat-message event: one of these, the empty string, or none
SocketMessages == ChatMessages \cup {<<>>, NoMessage}

\* The sessions connections join
JoinIds == {"s1"}

\* Where a request arrives: on its own connection, or over HTTP
SocketOf(h) == IF h = "r1" THEN "c1" ELSE "c2"

\* uuidv4() in addMessage: an id no other message has
MessageId(h, phase) == <<h, phase>>

\* The fallback texts of the socket handler and of the route
FallbackResponse == "I'm still learning about the latest news! Please try again in a few minutes."
RouteFallbackResponse == "I'm still learning about the latest news! My knowledge base is being built right now (takes 5-10 minutes). Please try again in a few minutes, and I'll be able to give you intelligent news-based responses!"

FallbackText(on) == IF on \in Sockets THEN FallbackResponse ELSE RouteFallbackResponse
ShortMessageResponse == "Hi there! I'm your news assistant. Please ask me about the latest news"

\* The messages the handlers append
AssistantMessage(ragResult) ==
  [role |-> "assistant", content |-> ragResult.answer, type |-> "text",
   sources |-> ragResult.sources, contextCount |-> ragResult.contextCount]

FallbackMessage(on) ==
  [role |-> "assistant", content |-> FallbackText(on), type |-> "text",
   status |-> "initializing"]

ShortMessage ==
  [role |-> "assistant", content |-> ShortMessageResponse, type |-> "text",
   fallback |-> TRUE]

\* The events emitted to a room, each tagged with the chat request q whose handler
\* emitted it; timestamps are left out
BotTyping(q, typing) ==
  [ev |-> "bot-typing", q |-> q, typing |-> typing, payload |-> Null]

MessageAdded(q, payload) ==
  [ev |-> "message-added", q |-> q, typing |-> FALSE, payload |-> payload]

UserAdded(q, message) == MessageAdded(q, [role |-> "user", content |-> message])

AssistantAdded(q, ragResult) ==
  MessageAdded(q, [role |-> "assistant", content |-> ragResult.answer,
                   sources |-> ragResult.sources])

FallbackAdded(q) ==
  MessageAdded(q, [role |-> "assistant", content |-> FallbackResponse, fallback |-> TRUE])

\* io.to(room).emit(...), one call after the other
Emit(log, room, events) == [log EXCEPT ![room] = @ \o events]

NoHandler ==
  [pc |-> "idle", phase |-> "", on |-> "", sid |-> "", message |-> <<>>, add |-> Null,
   session |-> Null, rag |-> Null, hit |-> FALSE, queried |-> FALSE, live |-> FALSE,
   gone |-> FALSE]

\* A request whose handler has ended; where it arrived is kept
Handled(h, on) == [NoHandler EXCEPT !.pc = "done", !.on = on]

NoChat ==
  [outcome |-> "none", q |-> "", on |-> "", sid |-> "", rag |-> Null, hit |-> FALSE,
   queried |-> FALSE, live |-> FALSE, appended |-> Null, gone |-> FALSE]

\* A handler's end: "ok" when it ran to its end, "error" when its catch block ran,
\* "rejected" when its validation turned the request down
ChatEnded(h, outcome) ==
  [outcome |-> outcome, q |-> h, on |-> chat[h].on, sid |-> chat[h].sid,
   rag |-> chat[h].rag, hit |-> chat[h].hit, queried |-> chat[h].queried,
   live |-> chat[h].live, appended |-> chat[h].add, gone |-> chat[h].gone]

ChatInit ==
  /\ chat = [h \in Requests |-> NoHandler]
  /\ chatLast = NoChat
  /\ roomLog = [room \in ClientIds |-> <<>>]
  /\ activeConnections = <<>>

\* What the chat handlers leave alone
NotChat == <<now, call, acked, last, appendAge, writeAge, cacheLast, cachedQueries,
             hasPoints, ragCall, ragLast, compVars, vecVars>>

IsSocket(h) == chat[h].on \in Sockets

\* The catch block of either handler: bot-typing(false) to the room when the
\* request's sessionId is truthy, then the error to the caller
Catch(h) ==
  /\ roomLog' = IF Falsy(chat[h].sid) THEN roomLog
                ELSE Emit(roomLog, chat[h].sid, <<BotTyping(h, FALSE)>>)
  /\ chatLast' = ChatEnded(h, "error")
  /\ chat' = [chat EXCEPT ![h] = Handled(h, chat[h].on)]

\* The handler goes on to await sessionService.addMessage(sid, message)
AwaitAdd(h, phase, message) ==
  [chat[h] EXCEPT !.pc = "add_get", !.phase = phase, !.add = message, !.session = Null]

\* The model has one uuid for createSession to generate: a request with a falsy
\* sessionId starts when the session of that key is stored, or when the uuid is
\* unused and no other such request is in flight
UuidLeft(sessionId) ==
  Falsy(sessionId) =>
    \/ RedisLive(redisSession, sessionId, now)
    \/ /\ FreshIds(redisSession) # {}
       /\ \A h \in Requests : chat[h].pc = "idle" \/ ~Falsy(chat[h].sid)

\* Requests are interchangeable: the second arrives once the first has
Arrives(h) == chat[h].pc = "idle" /\ (h = "r1" \/ chat["r1"].pc # "idle")

Rejected(h, on, sessionId) ==
  [NoChat EXCEPT !.outcome = "rejected", !.q = h, !.on = on, !.sid = sessionId]

Started(h, on, sessionId, message, phase) ==
  [NoHandler EXCEPT !.pc = "add_get", !.phase = phase, !.on = on, !.sid = sessionId,
                    !.message = message, !.add = UserMessage(message)]

\* !message || message.trim().length === 0
Blank(message) == message = NoMessage \/ message = <<>> \/ Len(Trim(message)) = 0

\* The handler with !message as its only test of the message
ChatMessageUntrimmed(h, c, sessionId, message) ==
  /\ Arrives(h)
  /\ c = SocketOf(h)
  /\ UuidLeft(sessionId)
  /\ IF c \notin DOMAIN activeConnections \/ message = NoMessage \/ message = <<>>
     THEN /\ chatLast' = Rejected(h, c, sessionId)
          /\ chat' = [chat EXCEPT ![h] = Handled(h, c)]
     ELSE /\ chat' = [chat EXCEPT ![h] = Started(h, c, sessionId, message, "user")]
          /\ chatLast' = NoChat
  /\ UNCHANGED <<redisSession, msgSeq, redisRag, isInitialized, roomLog,
                 activeConnections, NotChat>>

\* socket.on("chat-message") up to its first await: the connection must have joined
\* and the message must not be blank
ChatMessage(h, c, sessionId, message) ==
  /\ Arrives(h)
  /\ c = SocketOf(h)
  /\ UuidLeft(sessionId)
  /\ IF c \notin DOMAIN activeConnections \/ Blank(message)
     THEN /\ chatLast' = Rejected(h, c, sessionId)
          /\ chat' = [chat EXCEPT ![h] = Handled(h, c)]
     ELSE /\ chat' = [chat EXCEPT ![h] = Started(h, c, sessionId, message, "user")]
          /\ chatLast' = NoChat
  /\ UNCHANGED <<redisSession, msgSeq, redisRag, isInitialized, roomLog,
                 activeConnections, NotChat>>

\* POST /api/chat up to its first await: sessionId and message are required, and a
\* message of one character gets the short answer
PostChat(h, sessionId, message) ==
  /\ Arrives(h)
  /\ IF Falsy(sessionId) \/ Trim(message) = <<>>
     THEN /\ chatLast' = Rejected(h, "http", sessionId)
          /\ chat' = [chat EXCEPT ![h] = Handled(h, "http")]
     ELSE /\ chat' = [chat EXCEPT ![h] =
                        Started(h, "http", sessionId, message,
                                IF Len(Trim(message)) < 2 THEN "short_user" ELSE "user")]
          /\ chatLast' = NoChat
  /\ UNCHANGED <<redisSession, msgSeq, redisRag, isInitialized, roomLog,
                 activeConnections, NotChat>>

\* addMessage: let session = await this.getSession(sessionId).  A Redis failure is
\* taken at this first command of the call: addMessage throws
ChatAddGet(h, ok) ==
  /\ chat[h].pc = "add_get"
  /\ IF ok
     THEN LET session == GetSession(redisSession, chat[h].sid, now)
          IN /\ chat' = [chat EXCEPT ![h] =
                           IF session = Null
                           THEN [@ EXCEPT !.pc = "add_create"]
                           ELSE [@ EXCEPT !.pc = "add_set",
                                          !.session = PushMessage(session, chat[h].add,
                                                                  MessageId(h, chat[h].phase))]]
             /\ chatLast' = NoChat
             /\ UNCHANGED roomLog
     ELSE Catch(h)
  /\ UNCHANGED <<redisSession, msgSeq, redisRag, isInitialized, activeConnections, NotChat>>

\* addMessage: session = await this.createSession(sessionId); then the push
ChatAddCreate(h) ==
  /\ chat[h].pc = "add_create"
  /\ \E generated \in (IF Falsy(chat[h].sid) THEN FreshIds(redisSession) ELSE {chat[h].sid}) :
       LET id == CreateId(chat[h].sid, generated)
       IN /\ redisSession' = CreateSessionStore(redisSession, id, now)
          /\ chat' = [chat EXCEPT
                        ![h].pc = "add_set",
                        ![h].session = PushMessage(SessionData(id), chat[h].add,
                                                   MessageId(h, chat[h].phase))]
  /\ chatLast' = NoChat
  /\ UNCHANGED <<msgSeq, roomLog, redisRag, isInitialized, activeConnections, NotChat>>

\* addMessage: await redis.setex(...); return session.  The handler goes on to its
\* next await, or to its end
ChatAddSet(h) ==
  /\ chat[h].pc = "add_set"
  /\ redisSession' = StoreSession(redisSession, chat[h].sid, chat[h].session, now)
  /\ CASE chat[h].phase = "user" /\ IsSocket(h) ->
               /\ roomLog' = Emit(roomLog, chat[h].sid,
                                  <<UserAdded(h, chat[h].message),
                                    BotTyping(h, TRUE)>>)
               /\ chat' = [chat EXCEPT ![h].pc = "cache_get"]
               /\ chatLast' = NoChat
          [] chat[h].phase = "user" /\ ~IsSocket(h) ->
               /\ roomLog' = Emit(roomLog, chat[h].sid, <<BotTyping(h, TRUE)>>)
               /\ chat' = [chat EXCEPT ![h].pc = "status"]
               /\ chatLast' = NoChat
          [] chat[h].phase = "short_user" ->
               /\ chat' = [chat EXCEPT ![h] = AwaitAdd(h, "short_assistant", ShortMessage)]
               /\ chatLast' = NoChat
               /\ UNCHANGED roomLog
          [] chat[h].phase = "fallback" /\ IsSocket(h) ->
               /\ roomLog' = Emit(roomLog, chat[h].sid, <<FallbackAdded(h)>>)
               /\ chatLast' = ChatEnded(h, "ok")
               /\ chat' = [chat EXCEPT ![h] = Handled(h, chat[h].on)]
          [] chat[h].phase = "assistant" /\ IsSocket(h) ->
               /\ roomLog' = Emit(roomLog, chat[h].sid,
                                  <<AssistantAdded(h, chat[h].rag)>>)
               /\ chatLast' = ChatEnded(h, "ok")
               /\ chat' = [chat EXCEPT ![h] = Handled(h, chat[h].on)]
          [] OTHER ->
               /\ chatLast' = ChatEnded(h, "ok")
               /\ chat' = [chat EXCEPT ![h] = Handled(h, chat[h].on)]
               /\ UNCHANGED roomLog
  /\ UNCHANGED <<msgSeq, redisRag, isInitialized, activeConnections, NotChat>>

\* A cache lookup whose hit left the typing indicator on
ChatCacheGetKeepsTyping(h) ==
  /\ chat[h].pc = "cache_get"
  /\ LET cachedResponse == CachedRAGResponse(redisRag, chat[h].message, now)
     IN chat' = [chat EXCEPT ![h] =
                   IF cachedResponse # Null
                   THEN [AwaitAdd(h, "assistant", AssistantMessage(cachedResponse.response))
                           EXCEPT !.rag = cachedResponse.response, !.hit = TRUE]
                   ELSE [@ EXCEPT !.pc = "status"]]
  /\ chatLast' = NoChat
  /\ UNCHANGED <<redisSession, msgSeq, redisRag, isInitialized, roomLog,
                 activeConnections, NotChat>>

\* chat-message: const cachedResponse = await cacheService.getCachedRAGResponse(message);
\* a hit stops the typing indicator and goes on to append the cached answer
ChatCacheGet(h) ==
  /\ chat[h].pc = "cache_get"
  /\ LET cachedResponse == CachedRAGResponse(redisRag, chat[h].message, now)
     IN IF cachedResponse # Null
        THEN /\ roomLog' = Emit(roomLog, chat[h].sid, <<BotTyping(h, FALSE)>>)
             /\ chat' = [chat EXCEPT ![h] =
                           [AwaitAdd(h, "assistant", AssistantMessage(cachedResponse.response))
                              EXCEPT !.rag = cachedResponse.response, !.hit = TRUE]]
        ELSE /\ chat' = [chat EXCEPT ![h].pc = "status"]
             /\ UNCHANGED roomLog
  /\ chatLast' = NoChat
  /\ UNCHANGED <<redisSession, msgSeq, redisRag, isInitialized,
                 activeConnections, NotChat>>

\* A handler that puts the query to the orchestrator whatever its status
ChatStatusAlwaysQueries(h) ==
  /\ chat[h].pc = "status"
  /\ chat' = [chat EXCEPT
                ![h].pc = "query", ![h].queried = TRUE,
                ![h].live = RedisLive(redisRag, RagKey(chat[h].message), now)]
  /\ chatLast' = NoChat
  /\ UNCHANGED <<redisSession, msgSeq, redisRag, isInitialized, roomLog,
                 activeConnections, NotChat>>

\* const ragStatus = await ragService.getStatus(): not initialized, the typing
\* indicator stops and the fallback answer is appended; initialized,
\* ragService.query(message) is called
ChatStatus(h) ==
  /\ chat[h].pc = "status"
  /\ IF ~isInitialized
     THEN /\ roomLog' = Emit(roomLog, chat[h].sid, <<BotTyping(h, FALSE)>>)
          /\ chat' = [chat EXCEPT ![h] = AwaitAdd(h, "fallback", FallbackMessage(chat[h].on))]
     ELSE /\ chat' = [chat EXCEPT
                        ![h].pc = "query", ![h].queried = TRUE,
                        ![h].live = RedisLive(redisRag, RagKey(chat[h].message), now)]
          /\ UNCHANGED roomLog
  /\ chatLast' = NoChat
  /\ UNCHANGED <<redisSession, msgSeq, redisRag, isInitialized,
                 activeConnections, NotChat>>

\* What an initialized ragService.query(message) can return for a message that is
\* not blank: the canned answer for a greeting, else an answer generated over the
\* retrieved context
QueryResults(message) ==
  IF HandleGreetings(Trim(message)) # NoGreeting
  THEN {GreetingResult(message, HandleGreetings(Trim(message)))}
  ELSE {RagResult(message, "a1", SourcesOf(<<Passage1>>)), RagResult(message, "a2", <<>>)}

\* ragResult = await ragService.query(message), which returns or throws; the socket
\* handler goes on to cache the result, the route to stop the typing indicator and
\* append the answer
ChatQuery(h, ok, ragResult) ==
  /\ chat[h].pc = "query"
  /\ IF ok \/ HandleGreetings(Trim(chat[h].message)) # NoGreeting
     THEN /\ IF IsSocket(h)
             THEN /\ chat' = [chat EXCEPT ![h].pc = "cache_put", ![h].rag = ragResult]
                  /\ UNCHANGED roomLog
             ELSE /\ roomLog' = Emit(roomLog, chat[h].sid, <<BotTyping(h, FALSE)>>)
                  /\ chat' = [chat EXCEPT ![h] =
                                [AwaitAdd(h, "assistant", AssistantMessage(ragResult))
                                   EXCEPT !.rag = ragResult]]
          /\ chatLast' = NoChat
     ELSE Catch(h)
  /\ UNCHANGED <<redisSession, msgSeq, redisRag, isInitialized,
                 activeConnections, NotChat>>

\* await cacheService.cacheRAGResponse(message, ragResult); the typing indicator
\* stops and the answer is appended
ChatCachePut(h) ==
  /\ chat[h].pc = "cache_put"
  /\ redisRag' = RedisSetex(redisRag, RagKey(chat[h].message), CACHE_TTL_LONG,
                            JSONStringify(CacheData(chat[h].message, chat[h].rag)), now)
  /\ roomLog' = Emit(roomLog, chat[h].sid, <<BotTyping(h, FALSE)>>)
  /\ chat' = [chat EXCEPT ![h] = AwaitAdd(h, "assistant", AssistantMessage(chat[h].rag))]
  /\ chatLast' = NoChat
  /\ UNCHANGED <<redisSession, msgSeq, isInitialized, activeConnections, NotChat>>

\* socket.on("join-session"): socket.join(sessionId) and the activeConnections entry,
\* what the chat handlers see of it; the history it then sends to the socket is in
\* JoinSessionHistory and SessionHistoryLoaded
JoinSession(c, sessionId) ==
  /\ activeConnections' = [k \in DOMAIN activeConnections \cup {c} |->
                             IF k = c THEN [sessionId |-> sessionId]
                             ELSE activeConnections[k]]
  /\ activeConnections' # activeConnections
  /\ chatLast' = NoChat
  /\ UNCHANGED <<chat, redisSession, msgSeq, redisRag, isInitialized,
                 roomLog, NotChat>>

\* The handlers note that their connection went away while ragService.query ran
Gone(c) ==
  [h \in Requests |->
     IF chat[h].on = c /\ chat[h].pc = "query" THEN [chat[h] EXCEPT !.gone = TRUE]
     ELSE chat[h]]

\* A disconnect that ends the handlers of the connection's requests
DisconnectAborts(c) ==
  /\ c \in DOMAIN activeConnections
  /\ activeConnections' = [k \in DOMAIN activeConnections \ {c} |-> activeConnections[k]]
  /\ chat' = [h \in Requests |->
               IF chat[h].on = c /\ chat[h].pc \notin {"idle", "done"}
               THEN Handled(h, c) ELSE chat[h]]
  /\ chatLast' = NoChat
  /\ UNCHANGED <<redisSession, msgSeq, redisRag, isInitialized, roomLog, NotChat>>

\* socket.on("disconnect"): the activeConnections entry is deleted
Disconnect(c) ==
  /\ c \in DOMAIN activeConnections
  /\ activeConnections' = [k \in DOMAIN activeConnections \ {c} |-> activeConnections[k]]
  /\ chat' = Gone(c)
  /\ chatLast' = NoChat
  /\ UNCHANGED <<redisSession, msgSeq, redisRag, isInitialized, roomLog, NotChat>>

(***************************************************************************)
(* The join-session handler with its history load (socketService.js)       *)
(***************************************************************************)
\* join-session events handled altogether
MaxJoins == 2

JoinIdle == [pc |-> "idle", sessionId |-> ""]

JoinInit ==
  join = [handler |-> [c \in Sockets |-> JoinIdle],
          log |-> [c \in Sockets |-> <<>>],
          ended |-> [c \in Sockets |-> <<>>]]

NotJoin == <<now, sessVars, cacheVars, ragVars, chat, chatLast, roomLog,
             retr, emb, lim, coll, vecVars>>

SessionHistoryEvent(history) == [event |-> "session-history", data |-> history]

JoinErrorEvent == [event |-> "error", data |-> [message |-> "Failed to join session"]]

\* socket.on("join-session"), to its await of getSessionHistory: socket.join(sessionId)
\* and the activeConnections entry, as in JoinSession
JoinSessionHistory(c, sessionId) ==
  /\ join.handler[c].pc = "idle"
  /\ Len(join.ended["c1"]) + Len(join.ended["c2"]) < MaxJoins
  /\ activeConnections' = [k \in DOMAIN activeConnections \cup {c} |->
                             IF k = c THEN [sessionId |-> sessionId]
                             ELSE activeConnections[k]]
  /\ join' = [join EXCEPT !.handler[c] = [pc |-> "history", sessionId |-> sessionId]]
  /\ UNCHANGED NotJoin

\* A handler that sends the history to the room instead of the joining connection
SessionHistoryToRoom(c, ok) ==
  /\ join.handler[c].pc = "history"
  /\ LET sessionId == join.handler[c].sessionId
         history == SessionHistory(GetSession(redisSession, sessionId, now), sessionId)
         inRoom(k) == k \in DOMAIN activeConnections
                        /\ activeConnections[k].sessionId = sessionId
     IN join' = [join EXCEPT
                   !.handler[c] = JoinIdle,
                   !.log = [k \in Sockets |->
                              IF ok /\ inRoom(k)
                              THEN Append(join.log[k], SessionHistoryEvent(history))
                              ELSE IF ~ok /\ k = c THEN Append(join.log[k], JoinErrorEvent)
                              ELSE join.log[k]],
                   !.ended[c] = Append(@, [sessionId |-> sessionId, ok |-> ok])]
  /\ UNCHANGED <<activeConnections, NotJoin>>

\* The rest of the handler: getSessionHistory returns and the history goes to the
\* socket, or it throws (Redis fails, the stored text does not parse) and the
\* socket gets an error
SessionHistoryLoaded(c, ok) ==
  /\ join.handler[c].pc = "history"
  /\ LET sessionId == join.handler[c].sessionId
         history == SessionHistory(GetSession(redisSession, sessionId, now), sessionId)
     IN join' = [join EXCEPT
                   !.handler[c] = JoinIdle,
                   !.log[c] = Append(@, IF ok THEN SessionHistoryEvent(history)
                                        ELSE JoinErrorEvent),
                   !.ended[c] = Append(@, [sessionId |-> sessionId, ok |-> ok])]
  /\ UNCHANGED <<activeConnections, NotJoin>>

\* socket.on("disconnect") while join-session handlers may be in flight
JoinDisconnect(c) ==
  /\ c \in DOMAIN activeConnections
  /\ activeConnections' = [k \in DOMAIN activeConnections \ {c} |-> activeConnections[k]]
  /\ UNCHANGED <<join, NotJoin>>

(***************************************************************************)
(* VectorService.searchSimilar (vectorService.js): the query embedding is  *)
(* validated before the search request is sent.  An embedding is kept as   *)
(* what the validation reads of it: whether it is an array, its length and *)
(* the kinds of its components.                                            *)
(***************************************************************************)
ComponentKinds == {"number", "NaN", "Infinity", "-Infinity", "null"}

\* The global isNaN and isFinite convert their argument with Number(): null is 0
IsNaN(val) == val = "NaN"
IsFinite(val) == val \in {"number", "null"}

Embedding(array, length, parts) == [array |-> array, length |-> length, parts |-> parts]

\* null, undefined or a string in place of the embedding
NotAnEmbedding == Embedding(FALSE, 0, {})

EmbeddingLengths == {0, 767, 768, 769}

QueryEmbeddings ==
  {NotAnEmbedding, Embedding(TRUE, 0, {})}
    \cup {Embedding(TRUE, length, parts) :
            length \in EmbeddingLengths \ {0}, parts \in (SUBSET ComponentKinds) \ {{}}}

NoSearchError == ""

\* A validation that looks at the shape of the embedding only
QueryEmbeddingErrorShapeOnly(queryEmbedding) ==
  IF ~queryEmbedding.array
  THEN "Invalid query embedding: must be an array"
  ELSE IF queryEmbedding.length # 768
  THEN "Invalid embedding dimension"
  ELSE NoSearchError

\* searchSimilar: "Validate embedding", the message of the error thrown
QueryEmbeddingError(queryEmbedding) ==
  IF ~queryEmbedding.array
  THEN "Invalid query embedding: must be an array"
  ELSE IF queryEmbedding.length # 768
  THEN "Invalid embedding dimension"
  ELSE IF \E val \in queryEmbedding.parts : IsNaN(val) \/ ~IsFinite(val)
  THEN "Invalid embedding: contains NaN or Infinity values"
  ELSE NoSearchError

SrchIdle == [pc |-> "idle", queryEmbedding |-> NotAnEmbedding, topK |-> 0,
             requests |-> <<>>, error |-> NoSearchError]

SrchInit == srch = SrchIdle

NotSrch == <<now, sessVars, cacheVars, ragVars, chatVars, compVars, kb, conn, storing, rt>>

\* searchSimilar(queryEmbedding, topK), to await this.ensureConnection()
SearchSimilar(queryEmbedding, topK) ==
  /\ srch.pc \in {"idle", "returned", "threw"}
  /\ srch' = [SrchIdle EXCEPT !.pc = "connect", !.queryEmbedding = queryEmbedding,
                              !.topK = topK]
  /\ UNCHANGED NotSrch

\* ensureConnection returns or throws; the embedding is validated and the search
\* request sent with it, to await this.client.search
SearchValidate(ok) ==
  /\ srch.pc = "connect"
  /\ LET error == QueryEmbeddingError(srch.queryEmbedding)
     IN srch' = IF ~ok
                THEN [srch EXCEPT !.pc = "threw", !.error = "Failed to connect to Qdrant"]
                ELSE IF error # NoSearchError
                THEN [srch EXCEPT !.pc = "threw", !.error = error]
                ELSE [srch EXCEPT !.pc = "search",
                                  !.requests = Append(@, [vector |-> srch.queryEmbedding,
                                                          limit |-> srch.topK])]
  /\ UNCHANGED NotSrch

\* client.search returns its results or throws
SearchAnswered(ok) ==
  /\ srch.pc = "search"
  /\ srch' = IF ok THEN [srch EXCEPT !.pc = "returned"]
             ELSE [srch EXCEPT !.pc = "threw", !.error = "search failed"]
  /\ UNCHANGED NotSrch

(***************************************************************************)
(* The knowledge base (ragService.js, server.js, routes/chat.js): the      *)
(* collection's records and RAGService.isInitialized under startup,        *)
(* initialize, buildKnowledgeBase and the routes that clear and recreate   *)
(* the collection.  A record is kept as the number of the build that       *)
(* stored it.                                                              *)
(***************************************************************************)
\* Builds of the knowledge base started altogether
MaxBuilds == 3

KbIdle == [pc |-> "idle", recreate |-> "idle", exists |-> FALSE, records |-> {},
           build |-> 0, built |-> 0]

KbInit == kb = KbIdle

NotKb == <<now, sessVars, cacheVars, ragCall, ragLast, chatVars, compVars, srch, conn, storing, rt>>

\* The collection holds points
HasPoints(k) == k.records # {}

\* The process starts: new RAGService() with isInitialized = false, then
\* initializeRAGService sets the flag when the vector service is connected and the
\* collection, which outlives the process, holds points
InitializeRAGService(connected) ==
  /\ kb' = [kb EXCEPT !.pc = "idle", !.recreate = "idle", !.built = 0]
  /\ isInitialized' = (connected /\ HasPoints(kb))
  /\ hasPoints' = HasPoints(kb')
  /\ UNCHANGED NotKb

\* buildKnowledgeBase starts: await newsService.getArticles(true)
BuildStarted == [kb EXCEPT !.pc = "articles", !.build = @ + 1, !.built = 0]

\* query() finds the flag unset and calls initialize(): connect and
\* ensureCollection, which creates a missing collection; a failure throws
Initialize(ok) ==
  /\ kb.pc = "idle"
  /\ ~isInitialized
  /\ kb' = IF ok THEN [kb EXCEPT !.pc = "init_info", !.exists = TRUE, !.built = 0]
           ELSE [kb EXCEPT !.built = 0]
  /\ UNCHANGED <<isInitialized, hasPoints, NotKb>>

\* initialize: getCollectionInfo, which reports no points when it fails; with
\* points the flag is set, without them the knowledge base is built
InitializeInfo(ok) ==
  /\ kb.pc = "init_info"
  /\ IF ok /\ HasPoints(kb)
     THEN /\ kb' = [kb EXCEPT !.pc = "idle"]
          /\ isInitialized' = TRUE
     ELSE /\ kb.build < MaxBuilds
          /\ kb' = BuildStarted
          /\ UNCHANGED isInitialized
  /\ UNCHANGED <<hasPoints, NotKb>>

\* POST /api/chat/rebuild: buildKnowledgeBase in the background
Rebuild ==
  /\ kb.pc = "idle"
  /\ kb.build < MaxBuilds
  /\ kb' = BuildStarted
  /\ UNCHANGED <<isInitialized, hasPoints, NotKb>>

\* The build's catch block: the flag is reset and the error thrown
BuildFailed(k) ==
  /\ kb' = [k EXCEPT !.pc = "idle"]
  /\ isInitialized' = FALSE
  /\ hasPoints' = HasPoints(kb')

\* buildKnowledgeBase: the articles arrive, or none does
BuildArticles(ok) ==
  /\ kb.pc = "articles"
  /\ IF ok
     THEN /\ kb' = [kb EXCEPT !.pc = "embed"]
          /\ UNCHANGED <<isInitialized, hasPoints>>
     ELSE BuildFailed(kb)
  /\ UNCHANGED NotKb

\* buildKnowledgeBase: await embeddingService.batchGenerateEmbeddings(allChunks)
BuildEmbed(ok) ==
  /\ kb.pc = "embed"
  /\ IF ok
     THEN /\ kb' = [kb EXCEPT !.pc = "store"]
          /\ UNCHANGED <<isInitialized, hasPoints>>
     ELSE BuildFailed(kb)
  /\ UNCHANGED NotKb

\* buildKnowledgeBase: await vectorService.storeEmbeddings(...), which upserts the
\* build's points under fresh ids into the collection as it is, then the flag is
\* set; when an upload throws, the points of the batches before it are stored.
\* Without a collection every upload fails.
BuildStore(ok, part) ==
  /\ kb.pc = "store"
  /\ IF ok /\ kb.exists
     THEN /\ kb' = [kb EXCEPT !.pc = "idle", !.records = @ \cup {kb.build},
                              !.built = kb.build]
          /\ isInitialized' = TRUE
          /\ hasPoints' = TRUE
     ELSE BuildFailed([kb EXCEPT !.records = IF part /\ kb.exists
                                             THEN @ \cup {kb.build} ELSE @])
  /\ UNCHANGED NotKb

\* DELETE /api/chat/collection: clearCollection deletes the collection, or fails
KbClearCollection(ok) ==
  /\ kb' = IF ok THEN [kb EXCEPT !.exists = FALSE, !.records = {}, !.built = 0]
           ELSE [kb EXCEPT !.built = 0]
  /\ hasPoints' = HasPoints(kb')
  /\ UNCHANGED <<isInitialized, NotKb>>

\* POST /api/chat/recreate-collection: clearCollection, whose failure is passed
\* over, then a pause
KbRecreateCollection(cleared) ==
  /\ kb.recreate = "idle"
  /\ kb' = IF cleared
           THEN [kb EXCEPT !.recreate = "wait", !.exists = FALSE, !.records = {},
                           !.built = 0]
           ELSE [kb EXCEPT !.recreate = "wait", !.built = 0]
  /\ hasPoints' = HasPoints(kb')
  /\ UNCHANGED <<isInitialized, NotKb>>

\* recreateCollection: ensureCollection creates a missing collection, or throws
KbRecreateEnsure(ensured) ==
  /\ kb.recreate = "wait"
  /\ kb' = [kb EXCEPT !.recreate = "idle", !.exists = @ \/ ensured, !.built = 0]
  /\ UNCHANGED <<isInitialized, hasPoints, NotKb>>

(***************************************************************************)
(* VectorService.connect and ensureConnection (ragService.js): the         *)
(* shared client handle, replaced by every connect attempt, and the flag   *)
(* isConnected.  A handle is named by the caller whose attempt created it; *)
(* a caller's new attempt makes a new handle, not yet tested.              *)
(***************************************************************************)
connectMaxRetries == 5
retryDelay == 2000

\* this.client = null
NoClient == "null"

\* The callers of the vector service that run at the same time
ConnCallers == {"q1", "q2"}

ConnCallerIdle ==
  [pc |-> "idle", via |-> "", attempt |-> 0, attempts |-> 0, delays |-> <<>>,
   testing |-> NoClient, used |-> NoClient, usedTested |-> FALSE]

NoConnCall == [p |-> "", outcome |-> "none"]

ConnInit ==
  conn = [client |-> NoClient, isConnected |-> FALSE,
          tested |-> [p \in ConnCallers |-> FALSE],
          callers |-> [p \in ConnCallers |-> ConnCallerIdle],
          last |-> NoConnCall]

NotConn == <<now, sessVars, cacheVars, ragVars, chatVars, compVars, srch, kb, storing, rt>>

\* connect, an attempt up to its await: the state is reset, a new client is made
\* and its getCollections awaited under a timeout
Attempt(c, p, via, attempt) ==
  [c EXCEPT !.isConnected = FALSE,
            !.client = p,
            !.tested[p] = FALSE,
            !.callers[p].pc = "connect_test",
            !.callers[p].via = via,
            !.callers[p].attempt = attempt,
            !.callers[p].attempts = IF attempt = 1 THEN 1 ELSE @ + 1,
            !.callers[p].delays = IF attempt = 1 THEN <<>> ELSE @,
            !.last = NoConnCall]

\* this.isConnected = false; this.client = null
Reset(c) == [c EXCEPT !.isConnected = FALSE, !.client = NoClient]

\* ensureConnection's test of the connection: await this.client.getCollections(),
\* which throws at once into the catch block when the client is null
Validate(c, p) ==
  IF c.client = NoClient
  THEN Attempt(Reset(c), p, "ensure_catch", 1)
  ELSE [c EXCEPT !.callers[p].pc = "ensure_test", !.callers[p].testing = c.client,
                 !.last = NoConnCall]

\* A caller that needs the client (searchSimilar, storeEmbeddings, ensureCollection)
\* calls ensureConnection: without a client or a connection it connects, else it
\* goes on to test the connection
EnsureConnection(p) ==
  /\ conn.callers[p].pc = "idle"
  /\ conn' = IF conn.client = NoClient \/ ~conn.isConnected
             THEN Attempt(conn, p, "ensure", 1)
             ELSE Validate(conn, p)
  /\ UNCHANGED NotConn

\* connect() called on its own, as initialize and the server's start do
Connect(p) ==
  /\ conn.callers[p].pc = "idle"
  /\ conn' = Attempt(conn, p, "connect", 1)
  /\ UNCHANGED NotConn

\* The delay before the next attempt
ConnectDelay(attempt) == retryDelay * Pow2(attempt - 1)

\* connect returns: to its caller, or inside ensureConnection to the test of the
\* connection (after the first connect) or to ensureConnection's own return
Connected(c, p) ==
  CASE c.callers[p].via = "connect" ->
         [c EXCEPT !.callers[p].pc = "done", !.last = [p |-> p, outcome |-> "connected"]]
    [] c.callers[p].via = "ensure" -> Validate(c, p)
    [] OTHER -> [c EXCEPT !.callers[p].pc = "returned", !.last = NoConnCall]

\* connect: the test of the attempt's client ends.  It succeeds: isConnected = true.
\* It fails: the state is reset, and the next attempt follows a delay, or, after
\* the last attempt, connect throws.
ConnectTest(p, ok) ==
  /\ conn.callers[p].pc = "connect_test"
  /\ conn' =
       IF ok
       THEN Connected([conn EXCEPT !.isConnected = TRUE, !.tested[p] = TRUE], p)
       ELSE IF conn.callers[p].attempt < connectMaxRetries
       THEN [Reset(conn) EXCEPT
               !.callers[p].pc = "connect_delay",
               !.callers[p].delays = Append(@, ConnectDelay(conn.callers[p].attempt)),
               !.last = NoConnCall]
       ELSE [Reset(conn) EXCEPT !.callers[p].pc = "threw",
                                !.last = [p |-> p, outcome |-> "threw"]]
  /\ UNCHANGED NotConn

\* connect: the delay is over, the next attempt starts
ConnectRetry(p) ==
  /\ conn.callers[p].pc = "connect_delay"
  /\ conn' = Attempt(conn, p, conn.callers[p].via, conn.callers[p].attempt + 1)
  /\ UNCHANGED NotConn

\* ensureConnection: its test of the connection ends; a failure resets the state
\* and connects anew, after which ensureConnection returns
EnsureTest(p, ok) ==
  /\ conn.callers[p].pc = "ensure_test"
  /\ conn' = IF ok
             THEN [conn EXCEPT !.tested[conn.callers[p].testing] = TRUE,
                               !.callers[p].pc = "returned", !.last = NoConnCall]
             ELSE Attempt(Reset(conn), p, "ensure_catch", 1)
  /\ UNCHANGED NotConn

\* The caller of ensureConnection goes on to its call of this.client (search,
\* upsert, getCollections), which throws a TypeError when the client is null
DependentCall(p) ==
  /\ conn.callers[p].pc = "returned"
  /\ conn' = [conn EXCEPT
                !.callers[p].pc = IF conn.client = NoClient THEN "threw" ELSE "done",
                !.callers[p].used = conn.client,
                !.callers[p].usedTested = conn.client # NoClient /\ conn.tested[conn.client],
                !.last = [p |-> p, outcome |-> "called"]]
  /\ UNCHANGED NotConn

(***************************************************************************)
(* VectorService.storeEmbeddings (ragService.js): the points made of the   *)
(* valid embeddings, uploaded in batches                                   *)
(***************************************************************************)
\* An embedding of 768 numbers
GoodEmbedding == Embedding(TRUE, expectedDimension, {"number"})

\* Embeddings that are not 768 finite numbers
BadEmbeddings ==
  {NotAnEmbedding,
   Embedding(TRUE, 767, {"number"}),
   Embedding(TRUE, expectedDimension, {"number", "NaN"}),
   Embedding(TRUE, expectedDimension, {"number", "-Infinity"}),
   Embedding(TRUE, expectedDimension, {"number", "null"})}

\* const batchSize = embeddings.length > 200 ? 75 : 50
BatchSize(length) == IF length > 200 THEN 75 ELSE 50

\* The numbers of embeddings handed over: one batch, a full batch, two and three
StoreLengths == {1, BatchSize(1), BatchSize(1) + 1, 2 * BatchSize(1) + 1}

\* The embeddings of a call: all good, but for the one at index bad (0: none). The
\* indices are those of JavaScript plus one.
EmbeddingsOf(length, bad, embedding) ==
  [index \in 1..length |-> IF index = bad THEN embedding ELSE GoodEmbedding]

\* chunks[index] and metadata[index], each naming its index
ChunkOf(index) == <<"chunk", index>>
MetadataOf(index) == <<"article", index>>

\* storeEmbeddings: the test of an embedding in the map callback
SkippedEmbedding(embedding) ==
  \/ ~embedding.array
  \/ embedding.length # 768
  \/ \E val \in embedding.parts : IsNaN(val) \/ ~IsFinite(val)

\* The point made of the embedding at an index
PointOf(embeddings, index) ==
  [vector |-> embeddings[index], text |-> ChunkOf(index),
   metadata |-> MetadataOf(index), chunk_index |-> index]

\* embeddings.map(...).filter((point) => point !== null)
PointsOf(embeddings) ==
  LET kept == SelectSeq([index \in 1..Len(embeddings) |-> index],
                        LAMBDA index : ~SkippedEmbedding(embeddings[index]))
  IN [k \in 1..Len(kept) |-> PointOf(embeddings, kept[k])]

\* points.slice(i, i + batchSize)
BatchAt(points, i, batchSize) ==
  SubSeq(points, i + 1, IF i + batchSize < Len(points) THEN i + batchSize ELSE Len(points))

StoringIdle ==
  [pc |-> "idle", embeddings |-> <<>>, points |-> <<>>, i |-> 0,
   sent |-> <<>>, acknowledged |-> <<>>, pending |-> FALSE, early |-> FALSE]

StoringInit == storing = StoringIdle

NotStoring == <<now, sessVars, cacheVars, ragVars, chatVars, compVars, srch, kb, conn, rt>>

\* The upload loop at index i: the batch is sent with wait: true, or, past the
\* last point, the collection is asked for its count
Upload(st, i) ==
  IF i < Len(st.points)
  THEN [st EXCEPT !.pc = "upsert", !.i = i,
                  !.sent = Append(@, BatchAt(st.points, i, BatchSize(Len(st.embeddings)))),
                  !.early = @ \/ st.pending,
                  !.pending = TRUE]
  ELSE [st EXCEPT !.pc = "info", !.i = i]

\* storeEmbeddings(chunks, embeddings, metadata), to await this.ensureConnection()
StoreEmbeddings(embeddings) ==
  /\ storing.pc = "idle"
  /\ storing' = [StoringIdle EXCEPT !.pc = "connect", !.embeddings = embeddings]
  /\ UNCHANGED NotStoring

\* ensureConnection returns or throws; with a client the points are made and the
\* first batch is sent
StoreConnected(ok) ==
  /\ storing.pc = "connect"
  /\ storing' = IF ok
                THEN Upload([storing EXCEPT !.points = PointsOf(storing.embeddings)], 0)
                ELSE [storing EXCEPT !.pc = "threw"]
  /\ UNCHANGED NotStoring

UpsertOutcomes == {"stored", "timeout", "error"}

\* The upsert of the batch ends: acknowledged; failed with a message that holds
\* "timeout", after which the loop goes on with the next batch; or failed otherwise,
\* which throws "Batch upload failed"
StoreUpsert(outcome) ==
  /\ storing.pc = "upsert"
  /\ LET batchSize == BatchSize(Len(storing.embeddings))
         batch == BatchAt(storing.points, storing.i, batchSize)
     IN storing' =
          CASE outcome = "stored" ->
                 Upload([storing EXCEPT !.acknowledged = Append(@, batch),
                                        !.pending = FALSE],
                        storing.i + batchSize)
            [] outcome = "timeout" -> Upload(storing, storing.i + batchSize)
            [] OTHER -> [storing EXCEPT !.pc = "threw"]
  /\ UNCHANGED NotStoring

\* getCollectionInfo returns, and storeEmbeddings with its points_count, or throws
StoreInfo(ok) ==
  /\ storing.pc = "info"
  /\ storing' = [storing EXCEPT !.pc = IF ok THEN "returned" ELSE "threw"]
  /\ UNCHANGED NotStoring

(***************************************************************************)
(* The connections of the real-time channel (socketService.js): the rooms  *)
(* a connection is in, and the events that reach it.  io.to(room).emit     *)
(* sends to the connections in the room at that time, socket.emit to the   *)
(* one connection.  socket.io takes a connection that disconnects out of   *)
(* its rooms.                                                              *)
(***************************************************************************)
\* The sessions named in join-session, chat-message and reset-session events
RoomIds == {"s1", "s2"}

\* reset-session events handled altogether
MaxResets == 1

RtIdle == [pc |-> "idle", sid |-> "", joined |-> "", session |-> Null, mid |-> 0]

\* What a handler did to a session: the connection, the session it had joined
\* when the event arrived ("" for none), the session acted on, the message
NoAct == [by |-> "", joined |-> "", sid |-> "", op |-> "none", mid |-> 0]

RtInit ==
  rt = [live |-> [c \in Sockets |-> TRUE],
        rooms |-> [c \in Sockets |-> {}],
        handler |-> [c \in Sockets |-> RtIdle],
        inbox |-> [c \in Sockets |-> <<>>],
        joins |-> 0,
        chats |-> 0,
        resets |-> 0,
        act |-> NoAct]

NotRt == <<now, call, acked, last, appendAge, writeAge, cacheVars, ragVars, chat,
           chatLast, roomLog, compVars, srch, kb, conn, storing>>

\* The events a connection receives.  mid is the stored id of the message an event
\* is about, which the event itself does not carry.
HistoryEvent(room, history) ==
  [event |-> "session-history", room |-> room,
   mids |-> [i \in DOMAIN history.messages |-> history.messages[i].messageId]]
AddedEvent(room, mid) == [event |-> "message-added", room |-> room, mids |-> <<mid>>]
TypingEvent(room) == [event |-> "bot-typing", room |-> room, mids |-> <<>>]
ResetEvent(room) == [event |-> "session-reset", room |-> room, mids |-> <<>>]
ErrorEvent == [event |-> "error", room |-> "", mids |-> <<>>]

\* this.io.to(room).emit(...)
ToRoom(r, room, e) ==
  [c \in Sockets |-> IF r.live[c] /\ room \in r.rooms[c] THEN Append(r.inbox[c], e)
                     ELSE r.inbox[c]]

\* socket.emit(...)
ToSocket(r, c, e) == [r.inbox EXCEPT ![c] = Append(@, e)]

\* The session a connection has joined, as activeConnections has it
JoinedOf(c) == IF c \in DOMAIN activeConnections THEN activeConnections[c].sessionId ELSE ""

\* socket.join(room)
Join(rooms, room) == rooms \cup {room}

\* socket.on("join-session"), to its await of getSessionHistory: socket.join(sessionId)
\* and the activeConnections entry
RtJoinSession(c, sessionId) ==
  /\ rt.live[c]
  /\ rt.handler[c].pc = "idle"
  /\ rt.joins < MaxJoins
  /\ activeConnections' = [k \in DOMAIN activeConnections \cup {c} |->
                             IF k = c THEN [sessionId |-> sessionId]
                             ELSE activeConnections[k]]
  /\ rt' = [rt EXCEPT !.rooms[c] = Join(@, sessionId),
                      !.handler[c] = [RtIdle EXCEPT !.pc = "history", !.sid = sessionId],
                      !.joins = @ + 1,
                      !.act = NoAct]
  /\ UNCHANGED <<redisSession, msgSeq, NotRt>>

\* join-session: the history arrives and is sent to the socket, or the load throws
RtSessionHistory(c, ok) ==
  /\ rt.handler[c].pc = "history"
  /\ LET sessionId == rt.handler[c].sid
         history == SessionHistory(GetSession(redisSession, sessionId, now), sessionId)
     IN rt' = [rt EXCEPT !.handler[c] = RtIdle,
                         !.inbox = ToSocket(rt, c, IF ok THEN HistoryEvent(sessionId, history)
                                                   ELSE ErrorEvent),
                         !.act = NoAct]
  /\ UNCHANGED <<redisSession, msgSeq, activeConnections, NotRt>>

\* socket.on("chat-message"), to its await of addMessage: the sessionId is the one
\* of the event's data; a connection without an activeConnections entry gets an
\* error
RtChatMessage(c, sessionId, content) ==
  /\ rt.live[c]
  /\ rt.handler[c].pc = "idle"
  /\ rt.chats < MaxMsgs
  /\ IF c \notin DOMAIN activeConnections
     THEN rt' = [rt EXCEPT !.inbox = ToSocket(rt, c, ErrorEvent), !.chats = @ + 1,
                           !.act = NoAct]
     ELSE rt' = [rt EXCEPT !.handler[c] = [RtIdle EXCEPT !.pc = "add_get", !.sid = sessionId,
                                                         !.joined = JoinedOf(c),
                                                         !.session = UserMessage(content)],
                           !.chats = @ + 1,
                           !.act = NoAct]
  /\ UNCHANGED <<redisSession, msgSeq, activeConnections, NotRt>>

\* Payloads of a chat-message event that carry neither sessionId nor message
Payloads == {"null", "undefined", "text", "number", "empty object"}

\* data.sessionId and the destructuring of data give undefined for every value but
\* null and undefined, of which no property can be read (TypeError)
HasProperties(data) == data \notin {"null", "undefined"}

\* socket.on("chat-message") for such a payload.  The destructuring throws inside
\* the try or gives no message: then the connection without an entry gets "No
\* active session", the other "Empty message".  The catch block reads
\* data.sessionId before it emits anything, and what that throws leaves the handler.
RtChatPayload(c, data) ==
  /\ rt.live[c]
  /\ rt.handler[c].pc = "idle"
  /\ rt.chats < MaxMsgs
  /\ rt' = [rt EXCEPT !.inbox = IF HasProperties(data) THEN ToSocket(rt, c, ErrorEvent)
                                ELSE @,
                      !.chats = @ + 1,
                      !.act = NoAct]
  /\ UNCHANGED <<redisSession, msgSeq, activeConnections, NotRt>>

\* The handler's catch block: bot-typing(false) to the room of data.sessionId, an
\* error to the socket
RtCatch(c) ==
  LET typed == [rt EXCEPT !.inbox = ToRoom(rt, rt.handler[c].sid, TypingEvent(rt.handler[c].sid))]
  IN [typed EXCEPT !.inbox = ToSocket(typed, c, ErrorEvent),
                   !.handler[c] = RtIdle,
                   !.act = NoAct]

\* addMessage: getSession; the message is pushed onto the session read
RtAddGet(c) ==
  /\ rt.handler[c].pc = "add_get"
  /\ LET session == GetSession(redisSession, rt.handler[c].sid, now)
     IN /\ msgSeq' = msgSeq + 1
        /\ rt' = [rt EXCEPT
                    !.handler[c].pc = IF session = Null THEN "add_create" ELSE "add_set",
                    !.handler[c].mid = msgSeq + 1,
                    !.handler[c].session =
                       IF session = Null THEN @
                       ELSE PushMessage(session, rt.handler[c].session, msgSeq + 1),
                    !.act = NoAct]
  /\ UNCHANGED <<redisSession, activeConnections, NotRt>>

\* addMessage: createSession(sessionId) for a session that is not stored
RtAddCreate(c) ==
  /\ rt.handler[c].pc = "add_create"
  /\ redisSession' = CreateSessionStore(redisSession, rt.handler[c].sid, now)
  /\ rt' = [rt EXCEPT
              !.handler[c].pc = "add_set",
              !.handler[c].session = PushMessage(SessionData(rt.handler[c].sid), @,
                                                 rt.handler[c].mid),
              !.act = [by |-> c, joined |-> rt.handler[c].joined,
                       sid |-> rt.handler[c].sid, op |-> "create",
                       mid |-> 0]]
  /\ UNCHANGED <<msgSeq, activeConnections, NotRt>>

\* addMessage: Redis stores the session with the message, or the setex fails and
\* the handler's catch block runs
RtAddSet(c, ok) ==
  /\ rt.handler[c].pc = "add_set"
  /\ IF ok
     THEN /\ redisSession' = StoreSession(redisSession, rt.handler[c].sid,
                                          rt.handler[c].session, now)
          /\ rt' = [rt EXCEPT !.handler[c].pc = "add_ack",
                              !.act = [by |-> c, joined |-> rt.handler[c].joined,
                                       sid |-> rt.handler[c].sid, op |-> "add",
                       mid |-> rt.handler[c].mid]]
     ELSE /\ rt' = RtCatch(c)
          /\ UNCHANGED redisSession
  /\ UNCHANGED <<msgSeq, activeConnections, NotRt>>

\* addMessage has returned: message-added goes to the room of data.sessionId.  The
\* handler goes on to the cache and the orchestrator (ChatCacheGet and after).
RtMessageAdded(c) ==
  /\ rt.handler[c].pc = "add_ack"
  /\ rt' = [rt EXCEPT !.inbox = ToRoom(rt, rt.handler[c].sid,
                                       AddedEvent(rt.handler[c].sid, rt.handler[c].mid)),
                      !.handler[c] = RtIdle,
                      !.act = [by |-> c, joined |-> rt.handler[c].joined,
                               sid |-> rt.handler[c].sid, op |-> "emit",
                       mid |-> rt.handler[c].mid]]
  /\ UNCHANGED <<redisSession, msgSeq, activeConnections, NotRt>>

\* socket.on("reset-session"), to its await of clearSession(sessionId)
RtResetSession(c, sessionId) ==
  /\ rt.live[c]
  /\ rt.handler[c].pc = "idle"
  /\ rt.resets < MaxResets
  /\ rt' = [rt EXCEPT !.handler[c] = [RtIdle EXCEPT !.pc = "reset", !.sid = sessionId,
                                                    !.joined = JoinedOf(c)],
                      !.resets = @ + 1,
                      !.act = NoAct]
  /\ UNCHANGED <<redisSession, msgSeq, activeConnections, NotRt>>

\* reset-session: the key is deleted and session-reset goes to the room, or the
\* delete fails and the socket gets an error
RtSessionReset(c, ok) ==
  /\ rt.handler[c].pc = "reset"
  /\ IF ok
     THEN /\ redisSession' = RedisDel(redisSession, rt.handler[c].sid)
          /\ rt' = [rt EXCEPT !.inbox = ToRoom(rt, rt.handler[c].sid,
                                               ResetEvent(rt.handler[c].sid)),
                              !.handler[c] = RtIdle,
                              !.act = [by |-> c, joined |-> rt.handler[c].joined,
                                       sid |-> rt.handler[c].sid, op |-> "clear",
                       mid |-> 0]]
     ELSE /\ rt' = [rt EXCEPT !.inbox = ToSocket(rt, c, ErrorEvent),
                              !.handler[c] = RtIdle, !.act = NoAct]
          /\ UNCHANGED redisSession
  /\ UNCHANGED <<msgSeq, activeConnections, NotRt>>

\* socket.on("disconnect"): the activeConnections entry is deleted; the connection
\* is out of its rooms.  Its handlers in flight run on.
RtDisconnect(c) ==
  /\ rt.live[c]
  /\ rt' = [rt EXCEPT !.live[c] = FALSE, !.rooms[c] = {}, !.act = NoAct]
  /\ activeConnections' = [k \in DOMAIN activeConnections \ {c} |-> activeConnections[k]]
  /\ UNCHANGED <<redisSession, msgSeq, NotRt>>

(***************************************************************************)
(* Specifications                                                          *)
(***************************************************************************)
\* No call of the services modelled on their own is in flight
CompInit ==
  /\ RetrInit
  /\ EmbInit
  /\ LimInit
  /\ CollInit
  /\ JoinInit
  /\ SrchInit
  /\ KbInit
  /\ ConnInit
  /\ StoringInit
  /\ RtInit

\* new RAGService(), an empty collection, empty Redis
Init ==
  /\ now = 0
  /\ SessInit
  /\ CacheInit
  /\ RagInit
  /\ ChatInit
  /\ CompInit
  /\ isInitialized = FALSE
  /\ hasPoints = FALSE

\* The orchestrator once startServer has run: initializeRAGService has set the flag
\* or not, the collection holds points or not
InitRag ==
  /\ now = 0
  /\ SessInit
  /\ CacheInit
  /\ RagInit
  /\ ChatInit
  /\ CompInit
  /\ isInitialized \in BOOLEAN
  /\ hasPoints \in BOOLEAN

\* One caller at a time, with the clock: every operation, and expiry
NextSession ==
  \/ \E sessionId \in ClientIds :
       \/ SessCreate(sessionId)
       \/ SessGet(sessionId)
       \/ SessHistory(sessionId)
       \/ SessClear(sessionId)
       \/ SessUpdateGet("p1", sessionId)
       \/ \E content \in Contents : SessAddGet("p1", sessionId, content)
  \/ SessUpdateSet("p1")
  \/ SessAddCreate("p1")
  \/ SessAddSet("p1")
  \/ Tick

SpecSession == Init /\ [][NextSession]_vars

\* Concurrent callers appending, creating and clearing, the clock standing still
NextAppend ==
  \/ \E p \in Callers :
       \/ \E sessionId \in ClientIds, content \in Contents : SessAddGet(p, sessionId, content)
       \/ SessAddCreate(p)
       \/ SessAddSet(p)
  \/ \E sessionId \in ClientIds :
       \/ SessCreate(sessionId)
       \/ SessClear(sessionId)

SpecAppend == Init /\ [][NextAppend]_vars

\* The answer cache: stores, lookups and expiry
NextCache ==
  \/ \E query \in Queries :
       \/ \E response \in RagResults(query) : CacheRAGResponse(query, response)
       \/ GetCachedRAGResponse(query)
  \/ CacheTick

SpecCache == Init /\ [][NextCache]_vars

\* The queries whose cached answers are followed to their expiry
ExpiryQueries == {<<"h", "i">>, <<"H", "i">>}

\* The answer cache next to a session that is read and appended to
NextExpiry ==
  \/ \E query \in ExpiryQueries :
       \/ \E response \in RagResults(query) : CacheRAGResponse(query, response)
       \/ GetCachedRAGResponse(query)
  \/ \E sessionId \in JoinIds :
       \/ SessGet(sessionId)
       \/ SessHistory(sessionId)
       \/ \E content \in Contents : SessAddGet("p1", sessionId, content)
  \/ SessAddCreate("p1")
  \/ SessAddSet("p1")
  \/ LongTick

SpecExpiry == Init /\ [][NextExpiry]_vars

\* The orchestrator answering one query at a time
NextRag ==
  \/ \E userQuery \in RagQueries : RagQuery(userQuery)
  \/ \E ok \in BOOLEAN :
       \/ RagInitConnect(ok)
       \/ RagInitEnsure(ok)
       \/ RagInitInfo(ok)
       \/ RagBuildArticles(ok)
       \/ RagBuildEmbed(ok)
       \/ RagBuildStore(ok)
       \/ RagRetrieveEmbed(ok)
       \/ \E context \in Contexts : RagRetrieveSearch(ok, context)
       \/ \E answer \in Answers : RagGenerate(ok, answer)
  \/ ClearCollection

SpecRag == InitRag /\ [][NextRag]_vars

\* One call of retrieveContext
NextRetrieve ==
  \/ \E query \in RetrieveQueries, topK \in TopKs : RetrieveContext(query, topK)
  \/ \E ok \in BOOLEAN : RetrieveEmbed(ok)
  \/ retr.pc = "search" /\ \E found \in SearchResults(retr.limit) : RetrieveSearch(Candidates(found))
  \/ RetrieveSearchThrows

SpecRetrieve == Init /\ [][NextRetrieve]_vars

\* One call of generateEmbeddings, its attempts and the service's answers
NextEmbed ==
  \/ \E texts \in EmbedTexts, jinaApiKey \in BOOLEAN : GenerateEmbeddings(texts, jinaApiKey)
  \/ \E response \in Responses : EmbedResponse(response)
  \/ EmbedRetry

SpecEmbed == Init /\ [][NextEmbed]_vars

\* Calls of batchGenerateEmbeddings and generateQueryEmbedding with a service that
\* answers every text sent to it
NextBatch ==
  \/ \E texts \in BatchInputs, batchSize \in BatchSizes : BatchGenerateEmbeddings(texts, batchSize)
  \/ \E ok \in BOOLEAN :
       \/ BatchNext(ok)
       \/ \E query \in BatchTexts : GenerateQueryEmbedding(query, ok)

SpecBatch == Init /\ [][NextBatch]_vars

\* Requests to /api/chat from two addresses, as time passes
NextLimit ==
  \/ RateLimitHandler("ip1")
  \/ Len(lim.passed["ip2"]) < MaxOtherRequests /\ RateLimitHandler("ip2")
  \/ LimitTick

SpecLimit == Init /\ [][NextLimit]_vars

\* A client that sends over HTTP and over its connection
NextSocketLimit ==
  \/ RateLimitHandler("ip1")
  \/ ChatMessageEvent("ip1")
  \/ LimitTick

SpecSocketLimit == Init /\ [][NextSocketLimit]_vars

\* The collection filled, then recreated
NextColl ==
  \/ CollectionCreated
  \/ PointStored
  \/ RecreateCollection
  \/ \E ok \in BOOLEAN : ClearConnect(ok)
  \/ \E ok \in BOOLEAN : ClearGet(ok)
  \/ \E ok \in BOOLEAN : ClearDelete(ok)
  \/ RecreateWait
  \/ \E ok \in BOOLEAN : EnsureConnect(ok)
  \/ \E ok \in BOOLEAN : EnsureList(ok)
  \/ \E ok \in BOOLEAN : EnsureCreate(ok)
  \/ EnsureCollection

SpecColl == Init /\ [][NextColl]_vars

\* Connections joining sessions while the sessions are created, appended to and
\* cleared, the clock standing still
NextJoin ==
  \/ \E c \in Sockets :
       \/ \E sessionId \in JoinIds : JoinSessionHistory(c, sessionId)
       \/ \E ok \in BOOLEAN : SessionHistoryLoaded(c, ok)
       \/ JoinDisconnect(c)
  \/ \E sessionId \in JoinIds :
       \/ \E content \in Contents : SessAddGet("p1", sessionId, content)
       \/ SessClear(sessionId)
  \/ SessAddCreate("p1")
  \/ SessAddSet("p1")

SpecJoin == Init /\ [][NextJoin]_vars

\* The orchestrator as the chat handlers find it: initialized when startServer found
\* points in the collection
InitChat ==
  /\ now = 0
  /\ SessInit
  /\ CacheInit
  /\ RagInit
  /\ ChatInit
  /\ CompInit
  /\ isInitialized \in BOOLEAN
  /\ hasPoints = isInitialized

\* Two chat requests, over connections or HTTP, their handlers in any interleaving
Next ==
  \/ \E c \in Sockets, sessionId \in JoinIds : JoinSession(c, sessionId)
  \/ \E c \in Sockets : Disconnect(c)
  \/ \E h \in Requests, sessionId \in ClientIds :
       \/ \E c \in Sockets, message \in SocketMessages : ChatMessage(h, c, sessionId, message)
       \/ \E message \in ChatMessages : PostChat(h, sessionId, message)
  \/ \E h \in Requests :
       \/ \E ok \in BOOLEAN :
            \/ ChatAddGet(h, ok)
            \/ \E ragResult \in QueryResults(chat[h].message) : ChatQuery(h, ok, ragResult)
       \/ ChatAddCreate(h)
       \/ ChatAddSet(h)
       \/ ChatCacheGet(h)
       \/ ChatStatus(h)
       \/ ChatCachePut(h)

Spec == InitChat /\ [][Next]_vars

\* Messages of one character after trimming, a letter and a question mark
ShortMessages == {<<"a">>, <<" ", "?">>}

\* One chat request with a short message, over a connection or HTTP
NextShort ==
  \/ \E c \in Sockets, sessionId \in JoinIds : JoinSession(c, sessionId)
  \/ \E sessionId \in ClientIds, message \in ShortMessages :
       \/ ChatMessage("r1", "c1", sessionId, message)
       \/ PostChat("r1", sessionId, message)
  \/ \E ok \in BOOLEAN :
       \/ ChatAddGet("r1", ok)
       \/ \E ragResult \in QueryResults(chat["r1"].message) : ChatQuery("r1", ok, ragResult)
  \/ ChatAddCreate("r1")
  \/ ChatAddSet("r1")
  \/ ChatCacheGet("r1")
  \/ ChatStatus("r1")
  \/ ChatCachePut("r1")

SpecShort == InitChat /\ [][NextShort]_vars

\* Calls of searchSimilar, one after the other
NextSearch ==
  \/ \E queryEmbedding \in QueryEmbeddings, topK \in TopKs :
       SearchSimilar(queryEmbedding, topK)
  \/ \E ok \in BOOLEAN : SearchValidate(ok)
  \/ \E ok \in BOOLEAN : SearchAnswered(ok)

SpecSearch == Init /\ [][NextSearch]_vars

\* The process starting, queries initializing, rebuilds, and the routes that clear
\* and recreate the collection
NextKb ==
  \/ \E connected \in BOOLEAN : InitializeRAGService(connected)
  \/ \E ok \in BOOLEAN : Initialize(ok)
  \/ \E ok \in BOOLEAN : InitializeInfo(ok)
  \/ Rebuild
  \/ \E ok \in BOOLEAN : BuildArticles(ok)
  \/ \E ok \in BOOLEAN : BuildEmbed(ok)
  \/ \E ok \in BOOLEAN, part \in BOOLEAN : BuildStore(ok, part)
  \/ \E ok \in BOOLEAN : KbClearCollection(ok)
  \/ \E cleared \in BOOLEAN : KbRecreateCollection(cleared)
  \/ \E ensured \in BOOLEAN : KbRecreateEnsure(ensured)

SpecKb == Init /\ [][NextKb]_vars

\* Two callers of the vector service at the same time
NextConnect ==
  \E p \in ConnCallers :
    \/ EnsureConnection(p)
    \/ Connect(p)
    \/ \E ok \in BOOLEAN : ConnectTest(p, ok)
    \/ ConnectRetry(p)
    \/ \E ok \in BOOLEAN : EnsureTest(p, ok)
    \/ DependentCall(p)

SpecConnect == Init /\ [][NextConnect]_vars

\* One call of storeEmbeddings
NextStoring ==
  \/ \E length \in StoreLengths, embedding \in BadEmbeddings :
       \E bad \in {0, 1, length} : StoreEmbeddings(EmbeddingsOf(length, bad, embedding))
  \/ \E ok \in BOOLEAN : StoreConnected(ok)
  \/ \E outcome \in UpsertOutcomes : StoreUpsert(outcome)
  \/ \E ok \in BOOLEAN : StoreInfo(ok)

SpecStoring == Init /\ [][NextStoring]_vars

\* Two connections joining and disconnecting, the first sending messages, the
\* second resetting sessions
NextRooms ==
  \E c \in Sockets :
    \/ \E sessionId \in RoomIds :
         \/ RtJoinSession(c, sessionId)
         \/ c = "c2" /\ RtResetSession(c, sessionId)
         \/ c = "c1" /\ \E content \in Contents : RtChatMessage(c, sessionId, content)
    \/ c = "c1" /\ \E data \in Payloads : RtChatPayload(c, data)
    \/ \E ok \in BOOLEAN :
         \/ RtSessionHistory(c, ok)
         \/ RtAddSet(c, ok)
         \/ RtSessionReset(c, ok)
    \/ RtAddGet(c)
    \/ RtAddCreate(c)
    \/ RtMessageAdded(c)
    \/ RtDisconnect(c)

SpecRooms == Init /\ [][NextRooms]_vars
(***************************************************************************)
(* Claims about the Session Directory                                      *)
(***************************************************************************)
StoredIds(sessionId) ==
  LET session == GetSession(redisSession, sessionId, now)
  IN [i \in 1..Len(session.messages) |-> session.messages[i].messageId]

\* What the call that just returned returned: the session it stored or read
LastSession == GetSession(redisSession, last.sid, now)

\* C4: a transcript is append-only: every message whose addMessage has returned is
\* in the stored session, after the messages appended before it, until the session
\* is cleared, created anew or expires, also when addMessage calls run concurrently.
C4_AppendOnly ==
  \A sessionId \in ClientIds :
    RedisLive(redisSession, sessionId, now) =>
      IsSubSeq(acked[sessionId], StoredIds(sessionId))

ReadOps == {"getSession", "getSessionHistory"}
WriteOps == {"createSession", "addMessage", "updateSessionActivity"}

\* C5, as claimed: every call on an existing session, read or write, leaves it with
\* the full time-to-live.
C5_EveryCallResetsTTL ==
  (last.op \in ReadOps \cup WriteOps /\ last.existed) =>
    RedisTTL(redisSession, last.sid, now) = SESSION_TTL

\* C5, amended: a write (createSession, addMessage, updateSessionActivity) leaves the
\* session it stored with the full time-to-live; a read (getSession,
\* getSessionHistory) leaves the remaining time-to-live as it was.
C5_WritesResetReadsKeepTTL ==
  /\ last.op \in WriteOps => RedisTTL(redisSession, last.sid, now) = SESSION_TTL
  /\ last.op \in ReadOps => RedisTTL(redisSession, last.sid, now) = last.ttlBefore

\* C5's case: a read of a stored session part of whose window has passed
C5_Witness ==
  /\ last.op \in ReadOps
  /\ last.existed
  /\ last.ttlBefore = SESSION_TTL - TickSeconds

\* What getSession and getSessionHistory return for an absent session
Absent(sessionId) ==
  /\ GetSession(redisSession, sessionId, now) = Null
  /\ ~SessionHistory(GetSession(redisSession, sessionId, now), sessionId).exists
  /\ SessionHistory(GetSession(redisSession, sessionId, now), sessionId).messages = <<>>

C7_AddCreatesSession ==
  (last.op = "addMessage" /\ ~last.existed) =>
    /\ LastSession # Null
    /\ LastSession.sessionId = last.sid
    /\ LastSession.messageCount = 1
    /\ Len(LastSession.messages) = 1
    /\ LastSession.messages[1].messageId = last.mid

(***************************************************************************)
(* Claims about the answer cache                                           *)
(***************************************************************************)
\* The getCachedRAGResponse that just returned followed a cacheRAGResponse of the
\* same query
GetAfterPut ==
  /\ cacheLast.op = "get"
  /\ cacheLast.after # Null
  /\ cacheLast.after.query = cacheLast.query

RoundTrip ==
  GetAfterPut =>
    /\ cacheLast.data # Null
    /\ cacheLast.data.response = cacheLast.after.response
    /\ cacheLast.data.response.answer = cacheLast.after.response.answer
    /\ cacheLast.data.sources = cacheLast.after.response.sources

GreetingAsked ==
  /\ ragLast.outcome # "none"
  /\ Trim(ragLast.query) # <<>>
  /\ HandleGreetings(Trim(ragLast.query)) # NoGreeting

\* C10: for every query the greeting classifier matches, query returns the canned
\* response with sources = [], contextCount = 0 and fallback = true, and invokes
\* neither the Embedding Gateway, the Vector Index nor the generation service,
\* whatever the value of isInitialized when the call starts.
C10_GreetingShortCircuit ==
  GreetingAsked =>
    /\ ragLast.outcome = "returned"
    /\ ragLast.result = GreetingResult(ragLast.query, HandleGreetings(Trim(ragLast.query)))
    /\ ragLast.result.sources = <<>>
    /\ ragLast.result.contextCount = 0
    /\ ragLast.result.fallback
    /\ ragLast.invoked \cap {"embedding", "vector", "generation"} = {}

(***************************************************************************)
(* Claims about the chat handlers                                          *)
(***************************************************************************)
\* An event's kind
Tag(e) ==
  IF e.ev = "bot-typing"
  THEN (IF e.typing THEN "bot-typing(true)" ELSE "bot-typing(false)")
  ELSE e.payload.role

\* The events of request q in a room's log, in the order emitted
EventsOf(q, room) == SelectSeq(roomLog[room], LAMBDA e : e.q = q)

Trace(q, room) == [i \in DOMAIN EventsOf(q, room) |-> Tag(EventsOf(q, room)[i])]

FourEvents == <<"user", "bot-typing(true)", "bot-typing(false)", "assistant">>

\* The chat-message handler that just ended had accepted its message
AcceptedEnded == chatLast.outcome \in {"ok", "error"} /\ chatLast.on \in Sockets

OnlyOwnRoom ==
  \A room \in ClientIds \ {chatLast.sid} : EventsOf(chatLast.q, room) = <<>>

\* C1, as claimed: for every chat-message accepted on a joined connection the events
\* emitted to the session room for that query are exactly message-added(user),
\* bot-typing(true), bot-typing(false), message-added(assistant), in this order.
C1_FourEventsAlways ==
  AcceptedEnded => Trace(chatLast.q, chatLast.sid) = FourEvents

\* What the room sees of a handler that ended in its catch block: the events up to
\* the failing step, then bot-typing(false) when the sessionId is truthy
ErrorTraces(sessionId) ==
  {prefix \o (IF Falsy(sessionId) THEN <<>> ELSE <<"bot-typing(false)">>) :
     prefix \in {SubSeq(FourEvents, 1, n) : n \in {0, 2, 3}}}

\* C1, amended: a chat-message handler that runs to its end (cache hit, cache miss or
\* not-initialized fallback) emits exactly the four events in order, to the room of
\* the message's sessionId only; one that a failing step sends to its catch block
\* emits the events up to that step, then bot-typing(false) when the sessionId is
\* truthy, and no message-added(assistant).
C1_FourEventsUnlessFailure ==
  /\ (AcceptedEnded /\ chatLast.outcome = "ok") =>
       Trace(chatLast.q, chatLast.sid) = FourEvents
  /\ (AcceptedEnded /\ chatLast.outcome = "error") =>
       Trace(chatLast.q, chatLast.sid) \in ErrorTraces(chatLast.sid)
  /\ AcceptedEnded => OnlyOwnRoom

\* C1's case: a chat-message answered from the cache has ended
C1_Witness ==
  /\ AcceptedEnded
  /\ chatLast.outcome = "ok"
  /\ chatLast.hit
  /\ Trace(chatLast.q, chatLast.sid) = FourEvents

AllHandled == \A h \in Requests : chat[h].pc = "done"

IsTyping(e, typing) == e.ev = "bot-typing" /\ e.typing = typing

\* C2: every bot-typing(true) emitted to a room is followed by a bot-typing(false)
\* emitted to the same room once the handlers have ended, whichever step failed
\* after typing started.
C2_TypingStops ==
  AllHandled =>
    \A room \in ClientIds :
      \A i \in DOMAIN roomLog[room] :
        IsTyping(roomLog[room][i], TRUE) =>
          \E j \in DOMAIN roomLog[room] : j > i /\ IsTyping(roomLog[room][j], FALSE)

BothOnSockets == \A h \in Requests : chat[h].on \in Sockets

Interleaved(log) ==
  \E i, j, k \in DOMAIN log :
    i < j /\ j < k /\ log[i].q = log[k].q /\ log[j].q # log[i].q

\* C3, as claimed: the events of two chat-message queries of the same room, from
\* different connections, never interleave.
C3_NeverInterleave ==
  BothOnSockets => \A room \in ClientIds : ~Interleaved(roomLog[room])

\* The last event of request q in a room
LastEventOf(q, room) == EventsOf(q, room)[Len(EventsOf(q, room))]

\* C9: on a chat request, chat-message or POST /chat, the orchestrator's query is
\* invoked only when the answer cache holds no live entry for the message, and on a
\* hit the answer text and sources appended to the session and delivered to the
\* room are the cached ones.
C9_ReadThrough ==
  chatLast.outcome \in {"ok", "error"} =>
    /\ chatLast.queried => ~chatLast.live
    /\ (chatLast.hit /\ chatLast.outcome = "ok") =>
         /\ chatLast.appended = AssistantMessage(chatLast.rag)
         /\ LastEventOf(chatLast.q, chatLast.sid) = AssistantAdded(chatLast.q, chatLast.rag)

(***************************************************************************)
(* Claims about retrieveContext                                            *)
(***************************************************************************)
\* The example: three candidates that pass but for their scores 0.91, 0.83, 0.4
ExampleCandidates ==
  <<Candidate(RelevantText, 910), Candidate(RelevantText, 830), Candidate(RelevantText, 400)>>

\* A lower-cased word of the query, longer than two characters, that the text holds
HasQueryWord(query, text) ==
  LET words == Split(ToLowerCase(query))
      lower == ToLowerCase(text)
  IN \E i \in DOMAIN words : Len(words[i]) > 2 /\ Includes(lower, words[i])

\* C11: retrieveContext(query, topK) asks the Vector Index for 2 * topK candidates and
\* returns a subsequence of them, in the order received, of at most topK, each with
\* score >= 0.7, at least 20 space-separated words and one query word longer than two
\* characters in its text; candidates scored 0.91, 0.83, 0.4 that otherwise pass, with
\* topK = 2, yield exactly the first two.
C11_RetrieveContextFilters ==
  retr.pc = "returned" =>
    /\ retr.limit = 2 * retr.topK
    /\ IsSubSeq(retr.filtered, retr.candidates)
    /\ Len(retr.filtered) <= retr.topK
    /\ \A i \in DOMAIN retr.filtered :
         /\ retr.filtered[i].score >= 700
         /\ Len(Split(retr.filtered[i].text)) >= 20
         /\ HasQueryWord(retr.query, retr.filtered[i].text)
    /\ (retr.candidates = ExampleCandidates /\ retr.topK = 2
          /\ HasQueryWord(retr.query, RelevantText)) =>
         retr.filtered = SubSeq(ExampleCandidates, 1, 2)

\* C11's case: the example's candidates have been filtered for topK = 2
C11_Witness ==
  /\ retr.pc = "returned"
  /\ retr.topK = 2
  /\ retr.candidates = ExampleCandidates
  /\ retr.filtered = SubSeq(ExampleCandidates, 1, 2)

(***************************************************************************)
(* Claims about generateEmbeddings                                         *)
(***************************************************************************)
\* C12: whenever generateEmbeddings returns a result, every vector in it is an array
\* of exactly 768 components, all of them finite numbers, whatever the embedding
\* service sent: one vector that is not makes the whole call fail.
C12_ReturnedVectorsValid ==
  emb.pc = "returned" =>
    \A i \in DOMAIN emb.embeddings :
      /\ emb.embeddings[i].array
      /\ emb.embeddings[i].length = 768
      /\ emb.embeddings[i].finite

\* A response the validation turns down: another body than an array of items, or
\* an item whose embedding is no array of 768
FailsValidation(response) ==
  \/ response.kind = "body"
  \/ /\ response.kind = "data"
     /\ \E i \in DOMAIN response.items :
          ~response.items[i].array \/ response.items[i].length # 768

\* C13: a validation failure of the embedding response (wrong vector length, vector
\* not an array, malformed body) is never retried: the request it answered is the
\* call's last, the call raises, and a call whose first response fails validation
\* has made exactly one request.
C13_ValidationNeverRetried ==
  \A k \in DOMAIN emb.log :
    FailsValidation(emb.log[k]) =>
      /\ k = Len(emb.log)
      /\ emb.requests = k
      /\ emb.pc = "threw"

\* C13's case: the first response carried a vector of the wrong length
C13_Witness ==
  /\ emb.pc = "threw"
  /\ emb.requests = 1
  /\ emb.log = <<Responded(<<ShortVector>>)>>

\* A request failed with a transient error
Transient(response) ==
  \/ response.kind = "status" /\ response.status \in {429, 500, 502, 503, 504}
  \/ response.kind = "code" /\ response.code \in {"ECONNRESET", "ETIMEDOUT", "ECONNABORTED"}

AllTransient ==
  /\ emb.log # <<>>
  /\ \A k \in DOMAIN emb.log : Transient(emb.log[k])

\* C14: when every request to the embedding service fails with a transient error,
\* generateEmbeddings makes at most maxRetries + 1 = 4 requests, waits between
\* consecutive requests a delay that strictly increases (2000 ms doubled per
\* attempt), and raises after the fourth failure.
C14_RetryBound ==
  AllTransient =>
    /\ emb.requests <= 4
    /\ Len(emb.delays) = emb.requests - (IF emb.pc = "wait" THEN 0 ELSE 1)
    /\ \A i \in DOMAIN emb.delays : emb.delays[i] = 2000 * Pow2(i - 1)
    /\ \A i \in 1..(Len(emb.delays) - 1) : emb.delays[i] < emb.delays[i + 1]
    /\ emb.pc # "returned"
    /\ Len(emb.log) = 4 => emb.pc = "threw"
    /\ emb.pc = "threw" => Len(emb.log) = 4

\* C14's case: four requests have failed with a 503 and the call has raised
C14_Witness ==
  /\ emb.pc = "threw"
  /\ emb.log = <<Failed(503), Failed(503), Failed(503), Failed(503)>>
  /\ emb.delays = <<2000, 4000, 8000>>

(***************************************************************************)
(* Claims about the rate limiter                                           *)
(***************************************************************************)
\* The requests of ip passed on to the route at a time in (t - 60 s, t]
PassedIn(ip, t) == SelectSeq(lim.passed[ip], LAMBDA time : time > t - 60000 /\ time <= t)

\* The times at which a window can end: now, and every earlier tick of the clock
WindowEnds == {k * LimitTickMs : k \in 0..lim.ticks}

C16_RecreatedEmpty ==
  coll.pc \in {"returned", "ensured"} => coll.exists /\ coll.points = 0

(***************************************************************************)
(* Claims about the events of the chat handlers                            *)
(***************************************************************************)
\* The message-added events of request q in a room, by the role of their message
MessagesAdded(q, room) ==
  SelectSeq(Trace(q, room), LAMBDA tag : tag \in {"user", "assistant"})

\* C17: every user or assistant message a chat request appends to a session,
\* arriving as a chat-message event or through POST /chat, causes exactly one
\* message-added event to the session's room: a request handled to its end has
\* appended the user's message and the answer, and the room has got one event each.
C17_OneEventPerMessage ==
  chatLast.outcome = "ok" =>
    /\ chatLast.appended # Null
    /\ MessagesAdded(chatLast.q, chatLast.sid) = <<"user", "assistant">>

(***************************************************************************)
(* Claims about the join-session handler                                   *)
(***************************************************************************)
JoinEventNames(c) == [i \in DOMAIN join.log[c] |-> join.log[c][i].event]

JoinOutcomeEvents(c) ==
  [i \in DOMAIN join.ended[c] |-> IF join.ended[c][i].ok THEN "session-history" ELSE "error"]

\* The step ends a join-session handler of connection c
JoinEnds(c) == join.handler[c].pc = "history" /\ join'.handler[c].pc = "idle"

\* C18: each join-session handled successfully produces exactly one session-history
\* event, sent to the joining connection and to no other, carrying the transcript
\* stored for that sessionId (no messages and exists = false when no session is
\* stored); a failure to load the history produces an error event and no
\* session-history.
C18_JoinSendsHistory ==
  [][\A c \in Sockets :
       /\ JoinEventNames(c)' = JoinOutcomeEvents(c)'
       /\ ~JoinEnds(c) => join'.log[c] = join.log[c]
       /\ JoinEnds(c) =>
            LET stored == GetSession(redisSession, join.handler[c].sessionId, now)
                sent == join'.log[c][Len(join'.log[c])]
            IN /\ Len(join'.log[c]) = Len(join.log[c]) + 1
               /\ join'.ended[c][Len(join'.ended[c])].ok =>
                    /\ sent.event = "session-history"
                    /\ IF stored = Null
                       THEN sent.data.messages = <<>> /\ ~sent.data.exists
                       ELSE sent.data.messages = stored.messages /\ sent.data.exists
               /\ ~join'.ended[c][Len(join'.ended[c])].ok => sent.event = "error"]_vars

\* A connection whose first join failed and whose second got a transcript of two
\* messages, while the other connection is in the same room
C18_Witness ==
  \E c \in Sockets :
    /\ JoinEventNames(c) = <<"error", "session-history">>
    /\ Len(join.log[c][2].data.messages) = 2
    /\ \E k \in Sockets \ {c} :
         /\ k \in DOMAIN activeConnections
         /\ activeConnections[k].sessionId = join.ended[c][2].sessionId

(***************************************************************************)
(* Claims about disconnects and the not-initialized fallback               *)
(***************************************************************************)
\* The step takes a connection out of activeConnections
Disconnects == \E c \in DOMAIN activeConnections : c \notin DOMAIN activeConnections'

LastStored(store, sessionId) ==
  LET session == GetSession(store, sessionId, now)
  IN session.messages[Len(session.messages)]

EventsIn(log, q) == SelectSeq(log, LAMBDA e : e.q = q)
TagsIn(log, q) == [i \in DOMAIN EventsIn(log, q) |-> Tag(EventsIn(log, q)[i])]
LastIn(log, q) == EventsIn(log, q)[Len(EventsIn(log, q))]

\* The step takes request h from the status check on
StatusChecked(h) == chat[h].pc = "status" /\ chat'[h].pc # "status"

\* The step ends the handler of request h, which was appending the fallback answer
FallbackEnds(h) == chat[h].phase = "fallback" /\ chat'[h].pc = "done"

\* C20: a chat request that misses the cache while the orchestrator is not
\* initialized does not invoke the orchestrator's query and signals no error: the
\* handler stops the typing indicator and appends the "still learning" text to the
\* session as an assistant message, and, the append done, delivers it as a normal
\* answer: message-added on the socket path, the 200 response on POST /chat.  Only
\* a failing append sends the handler to its catch block.
C20_FallbackWhenNotInitialized ==
  [][\A h \in Requests :
       /\ StatusChecked(h) /\ ~isInitialized =>
            /\ ~chat'[h].queried
            /\ chat'[h].pc = "add_get"
            /\ chat'[h].phase = "fallback"
            /\ chat'[h].add.role = "assistant"
            /\ chat'[h].add.content = FallbackText(chat[h].on)
            /\ LastIn(roomLog'[chat[h].sid], h) = BotTyping(h, FALSE)
       /\ FallbackEnds(h) =>
            /\ ~chatLast'.queried
            /\ chatLast'.outcome = "error" => chat[h].pc = "add_get"
            /\ chatLast'.outcome = "ok" =>
                 LET stored == LastStored(redisSession', chat[h].sid)
                 IN /\ stored.role = "assistant"
                    /\ stored.content = FallbackText(chat[h].on)
                    /\ IsSocket(h) =>
                         /\ LastIn(roomLog'[chat[h].sid], h) = FallbackAdded(h)
                         /\ TagsIn(roomLog'[chat[h].sid], h) = FourEvents]_vars

\* The route has answered with the fallback text, and the room holds the fallback
\* answer of a request made over a connection
C20_Witness ==
  /\ chatLast.outcome = "ok"
  /\ chatLast.on = "http"
  /\ ~chatLast.queried
  /\ chatLast.appended = FallbackMessage("http")
  /\ \E h \in Requests : \E i \in DOMAIN roomLog["s1"] : roomLog["s1"][i] = FallbackAdded(h)

(***************************************************************************)
(* Claims about short messages                                             *)
(***************************************************************************)
\* The answers that ask for a question about the news
PromptingAnswers == {ShortMessageResponse, "Hi there! I'm your news assistant."}

\* An answer that ragService.query generated over what retrieveContext returned:
\* the embedding service and the vector search were called
Retrieved(rag) == rag # Null /\ "fallback" \notin DOMAIN rag

InvalidQueryVector(queryEmbedding) ==
  \/ ~queryEmbedding.array
  \/ queryEmbedding.length # 768
  \/ queryEmbedding.parts \cap {"NaN", "Infinity", "-Infinity"} # {}

\* C22: searchSimilar called with a query vector that is not an array, has not
\* exactly 768 components or holds a NaN or infinite component throws and sends no
\* search request; the vector of a search request is the one the caller passed.
C22_InvalidVectorNotSent ==
  /\ \A i \in DOMAIN srch.requests : srch.requests[i].vector = srch.queryEmbedding
  /\ (srch.pc \notin {"idle", "connect"} /\ InvalidQueryVector(srch.queryEmbedding)) =>
       /\ srch.pc = "threw"
       /\ srch.error # NoSearchError
       /\ srch.requests = <<>>

C22_Witness ==
  /\ srch.pc = "threw"
  /\ srch.queryEmbedding = Embedding(TRUE, 768, {"number", "Infinity"})
  /\ srch.error = "Invalid embedding: contains NaN or Infinity values"
  /\ srch.requests = <<>>

(***************************************************************************)
(* Further claims about the answer cache                                   *)
(***************************************************************************)
\* The query text lower-cased and trimmed
Normalized(query) == ToLowerCase(Trim(query))

\* C23: the answer-cache key is hashed from the normalized query text: a query that
\* differs from a stored one only in letter case or in leading or trailing
\* whitespace is served from the entry stored for it.
C23_NormalizedKey ==
  (/\ cacheLast.op = "get"
   /\ cacheLast.after # Null
   /\ Normalized(cacheLast.after.query) = Normalized(cacheLast.query)) =>
      /\ cacheLast.data # Null
      /\ cacheLast.data.response = cacheLast.after.response

(***************************************************************************)
(* Claims about the knowledge base                                         *)
(***************************************************************************)
\* C24: in every reachable state the orchestrator is initialized only if the
\* collection holds at least one record, whatever initializations, builds and
\* clearings of the collection came before: a chat request is told "not
\* initialized" exactly when the index has no records.
C24_InitializedOnlyWithRecords == isInitialized => HasPoints(kb)

\* C28: a rebuild replaces the stored records wholesale: after a build has
\* completed, for any number of builds one after another, the collection holds the
\* records of that build and none of an earlier one.
C28_RebuildReplaces == kb.built > 0 => kb.records = {kb.built}

(***************************************************************************)
(* Claims about the connection to the Vector Index                         *)
(***************************************************************************)
\* The callers inside connect, each replacing the shared handle as it goes
Connecting == {p \in ConnCallers : conn.callers[p].pc \in {"connect_test", "connect_delay"}}

\* C25: reconnection is mutually exclusive in effect: at most one caller's connect
\* replaces the shared handle at a time, and a caller that has returned from
\* ensureConnection makes its dependent call on a handle that is not null and has
\* been tested.
C25_ReconnectExclusive ==
  /\ Cardinality(Connecting) <= 1
  /\ \A p \in ConnCallers :
       (conn.last.p = p /\ conn.last.outcome = "called") =>
          /\ conn.callers[p].used # NoClient
          /\ conn.callers[p].usedTested

\* The delays of a connect whose every attempt failed
AllFailedDelays == [i \in 1..(connectMaxRetries - 1) |-> ConnectDelay(i)]

\* C26: connect ends: when every test of the connection fails it has made exactly
\* maxRetries attempts, waited retryDelay * 2^(attempt-1) between them, and throws
\* leaving isConnected = false and client = null; and in every state
\* isConnected = true implies that the client is not null.
C26_ConnectEnds ==
  /\ \A p \in ConnCallers :
       (conn.last.p = p /\ conn.last.outcome = "threw") =>
          /\ conn.callers[p].attempts = connectMaxRetries
          /\ conn.callers[p].delays = AllFailedDelays
          /\ ~conn.isConnected
          /\ conn.client = NoClient
  /\ conn.isConnected => conn.client # NoClient

(***************************************************************************)
(* Claims about storeEmbeddings                                            *)
(***************************************************************************)
\* An embedding of 768 finite numbers
FiniteEmbedding(embedding) ==
  /\ embedding.array
  /\ embedding.length = 768
  /\ embedding.parts = {"number"}

\* The points of the batches of a sequence of batches
PointsIn(batches) ==
  UNION {{batches[k][j] : j \in 1..Len(batches[k])} : k \in 1..Len(batches)}

\* C27: storeEmbeddings sends a batch only after the one before it has been
\* acknowledged, so when it returns without throwing every embedding of 768 finite
\* numbers has been acknowledged as stored, with the text and the metadata of its
\* own index, and no other embedding has been sent.
C27_AllValidStored ==
  /\ ~storing.early
  /\ storing.pc = "returned" =>
       \A index \in 1..Len(storing.embeddings) :
          FiniteEmbedding(storing.embeddings[index]) =>
             PointOf(storing.embeddings, index) \in PointsIn(storing.acknowledged)
  /\ \A point \in PointsIn(storing.sent) : FiniteEmbedding(point.vector)

(***************************************************************************)
(* Claims about the life of a cached answer                                *)
(***************************************************************************)
\* This step is a cacheRAGResponse that stores under the key
StoresKey(key) ==
  /\ cacheLast'.op = "put"
  /\ RagKey(cacheLast'.query) = key
  /\ <<redisRag, cacheLast>>' # <<redisRag, cacheLast>>

\* This step is a getCachedRAGResponse
Looks == cacheLast'.op = "get" /\ cacheLast' # cacheLast

Written == {key \in DOMAIN redisRag' : key \notin DOMAIN redisRag \/ redisRag'[key] # redisRag[key]}

\* C30: an entry is written to the answer cache only after an answer has been
\* generated for the query: the not-initialized fallback, the canned answers to
\* greetings and small talk and the queries that failed never create or overwrite
\* an entry.
C30_OnlyGeneratedCached ==
  [][\A key \in Written : Retrieved(JSONParse(redisRag'[key].value).response)]_vars

StoredSessions == {JSONParse(redisSession[id].value) : id \in DOMAIN redisSession}

\* C32: in every session value stored, after any createSession, addMessage and
\* clearSession calls, messageCount is the length of the messages list; and the
\* session createSession stores and returns has no messages and messageCount 0.
C32_MessageCountIsLength ==
  /\ \A session \in StoredSessions : session.messageCount = Len(session.messages)
  /\ last.op = "createSession" =>
       /\ GetSession(redisSession, last.sid, now).messages = <<>>
       /\ GetSession(redisSession, last.sid, now).messageCount = 0

\* C32's case: a session stored with two messages
C32_Witness ==
  \E session \in StoredSessions : Len(session.messages) = 2 /\ session.messageCount = 2

(***************************************************************************)
(* Claims about the rate limit and the real-time channel                   *)
(***************************************************************************)
\* The chat-message events of a client handled in the window that ends at t
HandledIn(ip, t) == SelectSeq(lim.handled[ip], LAMBDA time : time > t - windowMs /\ time <= t)

\* C33: the rate limit bounds the chat requests that arrive over the real-time
\* channel as well: for every client at most 10 chat-message events in any 60
\* seconds reach the session store and the orchestrator.
C33_SocketEventsLimited ==
  \A ip \in Ips : \A t \in WindowEnds : Len(HandledIn(ip, t)) <= max

C34_OneRoomPerConnection ==
  \A c \in Sockets :
    /\ Cardinality(rt.rooms[c]) <= 1
    /\ rt.rooms[c] # {} => rt.rooms[c] = {JoinedOf(c)}
    /\ ~rt.live[c] => c \notin DOMAIN activeConnections /\ rt.rooms[c] = {}

\* The last act was on a session other than the one the connection had joined
ActedElsewhere == rt.act.op # "none" /\ rt.act.sid # rt.act.joined

\* C36: a connection acts only on the session it has joined: a chat-message or
\* reset-session event that names another session, or comes before any join, does
\* not append to that session, does not clear it and emits nothing to its room.
C36_OnlyJoinedSession == ~ActedElsewhere

\* The places in a connection's inbox of the events of a room, by kind
EventsAt(c, room, event) ==
  {i \in DOMAIN rt.inbox[c] : rt.inbox[c][i].room = room /\ rt.inbox[c][i].event = event}

\* How often a connection has been shown a message
TimesSeen(c, mid) ==
  Cardinality({<<i, j>> \in (DOMAIN rt.inbox[c]) \X (1..MaxMsgs) :
                 /\ rt.inbox[c][i].event \in {"session-history", "message-added"}
                 /\ j \in DOMAIN rt.inbox[c][i].mids
                 /\ rt.inbox[c][i].mids[j] = mid})

\* The connection has joined the room once, has its history, and no handler of
\* either connection is in flight
Settled(c, room) ==
  /\ rt.live[c]
  /\ rt.rooms[c] = {room}
  /\ Cardinality(EventsAt(c, room, "session-history")) = 1
  /\ \A k \in Sockets : rt.handler[k].pc = "idle"

\* No handler of the connection has ended in its catch block
Unfailed(c) == \A i \in DOMAIN rt.inbox[c] : rt.inbox[c][i].event # "error"

\* C37: for a connection that joins a room while another client's message is being
\* handled, and whose history load does not fail, session-history is the first event
\* of the room it receives, and every message stored in the session is shown to it
\* exactly once, in session-history or in a later message-added.
C37_HistoryFirstEachOnce ==
  \A c \in Sockets, room \in RoomIds :
    /\ Unfailed(c) =>
       \A i \in EventsAt(c, room, "message-added") :
         \E h \in EventsAt(c, room, "session-history") : h < i
    /\ (Settled(c, room) /\ rt.resets = 0) =>
         LET session == GetSession(redisSession, room, now)
         IN session # Null =>
              \A k \in DOMAIN session.messages :
                 TimesSeen(c, session.messages[k].messageId) = 1

\* C38: a message is stored before it is published: at the moment the handler emits
\* message-added, the session of the event is stored and its transcript holds the
\* message.
C38_StoredWhenPublished ==
  rt.act.op = "emit" =>
    LET session == GetSession(redisSession, rt.act.sid, now)
    IN /\ session # Null
       /\ \E k \in DOMAIN session.messages : session.messages[k].messageId = rt.act.mid

\* C39: whatever a client sends with chat-message, the handler ends with an event: a
\* chat-message whose handler ends where it began has given its sender an error.
C39_EveryPayloadAnswered ==
  [][(rt'.chats = rt.chats + 1 /\ \A c \in Sockets : rt'.handler[c].pc = "idle") =>
       \E c \in Sockets : rt'.inbox[c] = Append(rt.inbox[c], ErrorEvent)]_vars

(***************************************************************************)
(* Claims about the embeddings of batches and queries                      *)
(***************************************************************************)
\* C40: batchGenerateEmbeddings returns one vector for each text it was given, in the
\* order of the texts, so that the i-th vector is the embedding of the i-th text; and
\* generateQueryEmbedding returns a vector for every query that is not empty.
C40_OneVectorPerText ==
  /\ emb.pc = "batch_returned" =>
       /\ Len(emb.embeddings) = Len(emb.texts)
       /\ \A i \in DOMAIN emb.texts : emb.embeddings[i].of = Trim(emb.texts[i])
  /\ (emb.pc = "query_returned" /\ Len(emb.texts[1]) > 0) => emb.embeddings[1] # Null
====
